---- MODULE Spec2Model ----
(***************************************************************************)
(* Verification model of the k6 / Cucumber UI performance harness.         *)
(*                                                                         *)
(*   StepsSpec : the Cucumber step definitions (step_definitions/steps.js) *)
(*               that run the engine, capture its output and validate the   *)
(*               metric lines against a threshold.                          *)
(*   IterSpec  : one iteration of the engine script's default function:    *)
(*               configuration, validation, session, measurement, cleanup. *)
(*   PollSpec  : one call of waitForReactComponentReady against a page     *)
(*               whose DOM changes while the poller runs.                   *)
(*                                                                         *)
(* Text is modelled as a sequence of tokens.  A token is one character,    *)
(* except that the literals the regular expressions match as a whole       *)
(* ("main_page_load_time", "subcomponent_load_time", "avg=") are one token *)
(* each, and "x" stands for any character that no pattern mentions.        *)
(***************************************************************************)
EXTENDS Naturals, Integers, Sequences, FiniteSets, TLC

VARIABLES
    \* ---- step_definitions/steps.js ----
    url,          \* module variable url (steps.js:11)
    k6Output,     \* module variable k6Output (steps.js:9)
    k6Outputs,    \* module variable k6Outputs (steps.js:10)
    engineRuns,   \* the engine processes spawned by the last When step
    stepResult,   \* outcome of the last step that ran
    phase         \* position in the scenario: given, when, then, done

stepVars == <<url, k6Output, k6Outputs, engineRuns, stepResult, phase>>

VARIABLES
    \* ---- the engine script: one iteration of its default function ----
    ENV,          \* __ENV: the environment of the engine process
    pc,           \* position of the iteration in the default function
    context,      \* the browser context: none, open, closed, closeFailed
    page,         \* the page: none, open, closed, closeFailed
    calls,        \* the calls the iteration made on its collaborators, in order
    samples,      \* metric name -> number of samples added to the Trend
    shots,        \* what each takeScreenshot call was asked for and returned
    pending,      \* the error in flight to the caller, if any
    outcome,      \* how the default function ended: none, returned, raised
    measured,     \* componentState of measureReactComponentPerformance
    result,       \* result of measureReactUIPerformance
    faults        \* the collaborator calls that failed so far

iterVars == <<ENV, pc, context, page, calls, samples, shots, pending, outcome,
              measured, result, faults>>

VARIABLES
    \* ---- waitForReactComponentReady: one call ----
    expectedText,   \* the expectedText argument: none, text, or a text whose
                    \* text= locator throws
    now,            \* Date.now() - startTime
    lastCheckTime,  \* lastCheckTime - startTime
    componentState, \* the componentState record
    ppc,            \* position: loop, query, visible, enabled, text,
                    \* textVisible, paint, sleep, returned
    sleepLeft,      \* what is left of the current page.waitForTimeout
    dom,            \* what the page would answer to each check right now
    fresh,          \* the fields of componentState assigned in this tick
    readyAt,        \* since when the DOM satisfies every applicable check
    regressed,      \* some DOM condition went from true to false
    everVisible     \* the element was visible at some time

pollVars == <<expectedText, now, lastCheckTime, componentState, ppc, sleepLeft,
              dom, fresh, readyAt, regressed, everVisible>>

VARIABLES
    \* ---- measureReactUIPerformance: the request and response listeners ----
    netLogging,     \* CONFIG.features.networkLogging
    netNow,         \* Date.now()
    wire,           \* the requests the page sent so far, in order
    requestTimings, \* the Map requestTimings: identifier -> timing
    networkLogs,    \* the array networkLogs
    apiSamples,     \* the samples added to api_response_time
    netPc           \* monitoring, or done once the measurement returned

netVars == <<netLogging, netNow, wire, requestTimings, networkLogs, apiSamples,
             netPc>>

VARIABLES
    \* ---- takeScreenshot: one call ----
    shotArgs,       \* testType, status, selector and expectedText arguments
    vu,             \* vu.idInTest and vu.iterationInScenario
    spc,            \* position: start, highlight, name, paint, capture,
                    \* restore, returned
    textEls,        \* elements under the selector whose text holds expectedText
    styles,         \* element -> its inline style values
    marked,         \* element -> dataset.highlighted is set
    original,       \* element -> its style values when takeScreenshot was called
    highlightedElements, \* window._highlightedElements
    filename,       \* the filename, once computed
    shotReturn,     \* what takeScreenshot returned: none, null, path
    shotLog,        \* the warnings and errors logged
    shotFaults      \* the page calls that threw

shotVars == <<shotArgs, vu, spc, textEls, styles, marked, original,
              highlightedElements, filename, shotReturn, shotLog, shotFaults>>

VARIABLES
    \* ---- measureReactPagePerformance: one call and what leads to it ----
    clock,          \* Date.now()
    tpc,            \* position: goto, simulate, start, dom, idle, total, done,
                    \* raised, or off
    navStart,       \* Date.now() when page.goto was called
    idleEnd,        \* Date.now() when the network-idle wait ended
    startTime,      \* const startTime
    waited,         \* how long each waitForLoadState took
    timings,        \* the timings object
    trends          \* the samples added to the three Trend metrics

timingVars == <<clock, tpc, navStart, idleEnd, startTime, waited, timings, trends>>

VARIABLES
    \* ---- the CONFIG object of the engine script ----
    supplied,       \* __ENV: the numeric settings as the process received them
    CONFIG          \* the numeric fields of CONFIG once the module is loaded

configVars == <<supplied, CONFIG>>

VARIABLES
    \* ---- the scenarios one cucumber process runs ----
    earlier         \* what the scenarios before this one left in k6Output and
                    \* k6Outputs

scenVars == <<earlier>>

VARIABLES
    \* ---- step_definitions/hook.js ----
    processEnv,        \* process.env: the six variables the hooks write
    networkCondition,  \* module variable networkCondition (hook.js:18)
    cpuCondition,      \* module variable cpuCondition (hook.js:19)
    currentScenario,   \* module variable currentScenario (hook.js:17)
    pickle,            \* scenario.pickle of the scenario being run
    hookNo,            \* the Before hook the runner considers next
    hpc,               \* idle, before, steps, after
    afterRan           \* an After hook has run in this process

hookVars == <<processEnv, networkCondition, cpuCondition, currentScenario,
              pickle, hookNo, hpc, afterRan>>

vars == <<stepVars, iterVars, pollVars, netVars, shotVars, timingVars, configVars,
          scenVars, hookVars>>

-----------------------------------------------------------------------------
(* Bounds *)

MaxRows == 2          \* rows of the data table of the subcomponents step

\* Time of the readiness poller is counted in units of 50 ms.
PollInterval == 2     \* CONFIG.pollInterval
Timeout == 10         \* CONFIG.timeouts.component
MaxRequests == 2      \* requests the page sends while it is monitored
MaxNetTime == 2       \* clock ticks while the page is monitored
MaxLatency == 1       \* longest time one awaited page call takes
MaxOverhead == 1      \* ms that pass between two awaits of the page measurement

-----------------------------------------------------------------------------
(* Text helpers *)

MAIN == "main_page_load_time"
SUB  == "subcomponent_load_time"

Digit == {"0", "1", "2", "3", "4", "5", "6", "7", "8", "9"}

DigitVal(c) ==
    CASE c = "0" -> 0 [] c = "1" -> 1 [] c = "2" -> 2 [] c = "3" -> 3
      [] c = "4" -> 4 [] c = "5" -> 5 [] c = "6" -> 6 [] c = "7" -> 7
      [] c = "8" -> 8 [] c = "9" -> 9

\* \s of the regular expressions
WhiteSpace == {" ", "\n"}

\* [.\s]
DotOrSpace == {"."} \cup WhiteSpace

\* [0-9.]
NumChar == Digit \cup {"."}

RECURSIVE Pow10(_)
Pow10(k) == IF k = 0 THEN 1 ELSE 10 * Pow10(k - 1)

\* first index >= i of text whose token is not in S (Len(text)+1 if none)
RECURSIVE SkipWhile(_, _, _)
SkipWhile(text, i, S) ==
    IF i <= Len(text) /\ text[i] \in S THEN SkipWhile(text, i + 1, S) ELSE i

At(text, i) == IF i >= 1 /\ i <= Len(text) THEN text[i] ELSE "<eof>"

IsPrefix(p, s) == Len(p) <= Len(s) /\ SubSeq(s, 1, Len(p)) = p

\* s contains t as a contiguous part
Contains(s, t) ==
    \E i \in 1..(Len(s) + 1) :
        i + Len(t) - 1 <= Len(s) /\ SubSeq(s, i, i + Len(t) - 1) = t

-----------------------------------------------------------------------------
(* JavaScript values *)

NullStr == [isNull |-> TRUE, text |-> <<>>]
Str(t)  == [isNull |-> FALSE, text |-> t]

NullUrl == "<null>"

\* !x for a string-or-null value
Falsy(v) == v.isNull \/ v.text = <<>>

\* A number is NaN or the exact rational num/den
NaN == [nan |-> TRUE, num |-> 0, den |-> 1]
Num(n, d) == [nan |-> FALSE, num |-> n, den |-> d]

\* value of the digits text[i..j-1] read as a decimal integer
RECURSIVE DigitsVal(_, _, _)
DigitsVal(text, i, j) ==
    IF j <= i THEN 0
    ELSE 10 * DigitsVal(text, i, j - 1) + DigitVal(text[j - 1])

\* parseFloat on a string of [0-9.]: the longest prefix that is a decimal
\* literal (digits, optionally a dot and digits); NaN when it has no digit.
ParseFloat(s) ==
    LET e1 == SkipWhile(s, 1, Digit)
        hasDot == At(s, e1) = "."
        e2 == IF hasDot THEN SkipWhile(s, e1 + 1, Digit) ELSE e1
        fracLen == IF hasDot THEN e2 - (e1 + 1) ELSE 0
        intLen == e1 - 1
    IN  IF intLen = 0 /\ fracLen = 0 THEN NaN
        ELSE Num(DigitsVal(s, 1, e1) * Pow10(fracLen)
                   + (IF hasDot THEN DigitsVal(s, e1 + 1, e2) ELSE 0),
                 Pow10(fracLen))

\* v / k
DivBy(v, k) == IF v.nan THEN NaN ELSE Num(v.num, v.den * k)

\* v >= n for an integer n
GreaterOrEqual(v, n) == ~v.nan /\ v.num >= n * v.den

-----------------------------------------------------------------------------
(* The metric regular expressions of the validators *)

NoMatch == [found |-> FALSE, num |-> <<>>, unit |-> "none"]

\* One attempt of /<name>[.\s]*:\s*avg=([0-9.]+)(ms|s)/ (unit optional when
\* unitOptional) with the metric name at index i.  The classes [.\s], \s and
\* [0-9.] exclude the token that must follow them, so the greedy match is the
\* only candidate and backtracking never finds another.
MatchAt(text, i, name, unitOptional) ==
    LET j1 == SkipWhile(text, i + 1, DotOrSpace)
        j2 == SkipWhile(text, j1 + 1, WhiteSpace)
        j3 == SkipWhile(text, j2 + 1, NumChar)
        unit == IF At(text, j3) = "m" /\ At(text, j3 + 1) = "s" THEN "ms"
                ELSE IF At(text, j3) = "s" THEN "s"
                ELSE "undefined"
    IN  IF /\ At(text, i) = name
           /\ At(text, j1) = ":"
           /\ At(text, j2) = "avg="
           /\ j3 > j2 + 1
           /\ (unit # "undefined" \/ unitOptional)
        THEN [found |-> TRUE, num |-> SubSeq(text, j2 + 1, j3 - 1), unit |-> unit]
        ELSE NoMatch

\* String.prototype.match without the g flag: the leftmost match
RECURSIVE MatchFrom(_, _, _, _)
MatchFrom(text, i, name, unitOptional) ==
    IF i > Len(text) THEN NoMatch
    ELSE LET m == MatchAt(text, i, name, unitOptional)
         IN  IF m.found THEN m ELSE MatchFrom(text, i + 1, name, unitOptional)

\* steps.js:127  /subcomponent_load_time[.\s]*:\s*avg=([0-9.]+)(ms|s)/
SubMatch(output) == MatchFrom(output, 1, SUB, FALSE)

\* steps.js:166  /main_page_load_time[.\s]*:\s*avg=([0-9.]+)(ms|s)?/
MainMatch(output) == MatchFrom(output, 1, MAIN, TRUE)

\* steps.js:135-138
SubLoadTimeWrong(m) == ParseFloat(m.num)
SubLoadTime(m) ==
    LET value == ParseFloat(m.num)
    IN  IF m.unit = "ms" THEN DivBy(value, 1000) ELSE value

\* steps.js:175-181
MainLoadTime(m) ==
    LET value == ParseFloat(m.num)
    IN  IF m.unit = "ms" THEN DivBy(value, 1000) ELSE value

\* steps.js:144 and steps.js:185: isNaN(loadTime) || loadTime >= maxTime
ThresholdFailsWrong(loadTime, maxTime) ==
    loadTime.nan \/ (loadTime.num > maxTime * loadTime.den)
ThresholdFails(loadTime, maxTime) ==
    loadTime.nan \/ GreaterOrEqual(loadTime, maxTime)

-----------------------------------------------------------------------------
(* The engine process as the step definitions see it *)

Line(name, sep, num, unit) ==
    <<name>> \o sep \o <<":", " ", "avg=">> \o num \o unit \o <<" ", "x", "\n">>

NoAvgLine(name) == <<name, ".", ".", ":", " ", "x", "\n">>
NoiseLine == <<"x", " ", "x", "\n">>

Dots == <<".", ".">>

\* number texts an engine prints after avg=, and some it should not
Numbers ==
    { <<"9", "9", "6">>, <<"3", ".", "6", "2">>, <<"5", ".", "0", "0", "0">>,
      <<"5", "0", "0", "0">>, <<".">> }

\* what follows the number: the units of the grammar, no unit at all, and
\* the minutes form of a duration (1m30s)
Units == { <<"m", "s">>, <<"s">>, <<>>, <<"m", "3", "0", "s">> }

MetricLines(name) ==
    { Line(name, Dots, n, u) : n \in Numbers, u \in Units } \cup {NoAvgLine(name)}

StdoutTexts ==
    {<<>>, NoiseLine} \cup MetricLines(MAIN) \cup MetricLines(SUB)

StderrTexts ==
    { <<>>,
      Line(MAIN, Dots, <<"3", ".", "6", "2">>, <<"s">>),
      Line(SUB, <<".", " ">>, <<"9", "9", "6">>, <<"m", "s">>) }

\* One run of `k6 run k6/ui_performance.js` under execSync: its exit status
\* and what it wrote to each stream.
EngineRuns ==
    [exit : {0, 1}, stdout : StdoutTexts, stderr : StderrTexts]

\* steps.js:48-63 and steps.js:96-106: execSync returns the child's stdout
\* when it exits zero and throws an error carrying stdout and stderr
\* otherwise; the catch block concatenates the two.
Captured(run) ==
    IF run.exit = 0 THEN run.stdout ELSE run.stdout \o run.stderr

MaxTimes == {1, 5}

SelectorPool == <<"body", "#app", "#nav", ".footer">>

DataTable(n) == [i \in 1..n |-> SelectorPool[i]]

\* runs drawn for the rows of a data table with more than one row
RowRuns ==
    [exit : {0, 1},
     stdout : { Line(SUB, Dots, <<"9", "9", "6">>, <<"m", "s">>),
                Line(SUB, Dots, <<"5", ".", "0", "0", "0">>, <<"s">>),
                NoAvgLine(SUB) },
     stderr : { <<>>, Line(SUB, <<".", " ">>, <<"9", "9", "6">>, <<"m", "s">>) }]

Urls == {"", "https://www.google.com"}

-----------------------------------------------------------------------------
(* Step definitions (step_definitions/steps.js) *)

Result(step, status, kind, text, selector, maxTime, loadTimes) ==
    [step |-> step, status |-> status, kind |-> kind, text |-> text,
     selector |-> selector, maxTime |-> maxTime, loadTimes |-> loadTimes]

NoResult == Result("none", "none", "none", <<>>, "", 0, <<>>)

StepsInit ==
    /\ url = NullUrl
    /\ k6Output = NullStr
    /\ k6Outputs = <<>>
    /\ engineRuns = <<>>
    /\ stepResult = NoResult
    /\ phase = "given"

\* no load step of the process has captured anything yet
Pristine == k6Output.isNull /\ k6Outputs = <<>>

\* runs drawn once the module variables hold output of an earlier step: an
\* empty report, a main-page report, and a failed run with a subcomponent
\* report
LaterRuns ==
    { [exit |-> 0, stdout |-> <<>>, stderr |-> <<>>],
      [exit |-> 0, stdout |-> Line(MAIN, Dots, <<"9", "9", "6">>, <<"m", "s">>),
       stderr |-> <<>>],
      [exit |-> 1, stdout |-> Line(SUB, Dots, <<"9", "9", "6">>, <<"m", "s">>),
       stderr |-> <<>>] }

\* the engine runs a load step with n runs draws from
RunsOffered(n) ==
    IF ~Pristine THEN LaterRuns ELSE IF n = 1 THEN EngineRuns ELSE RowRuns

\* Given("page url - {string}")
GivenPageUrl ==
    /\ phase = "given"
    /\ \E u \in Urls : url' = u
    /\ stepResult' = Result("given", "pass", "none", <<>>, "", 0, <<>>)
    /\ phase' = "when"
    /\ UNCHANGED <<k6Output, k6Outputs, engineRuns>>

\* When("I load the main page")
WhenLoadMainPage ==
    /\ phase = "when"
    /\ \E envFileReadable \in BOOLEAN, run \in RunsOffered(1) :
         IF url \in {NullUrl, ""}
         THEN /\ stepResult' = Result("loadMain", "fail", "url_not_set", <<>>, "", 0, <<>>)
              /\ phase' = "done"
              /\ UNCHANGED <<k6Output, engineRuns>>
         ELSE IF ~envFileReadable
         THEN /\ stepResult' = Result("loadMain", "fail", "env_file", <<>>, "", 0, <<>>)
              /\ phase' = "done"
              /\ UNCHANGED <<k6Output, engineRuns>>
         ELSE /\ k6Output' = Str(Captured(run))
              /\ engineRuns' = <<run>>
              /\ stepResult' = Result("loadMain", "pass", "none", <<>>, "", 0, <<>>)
              /\ phase' = "then"
    /\ UNCHANGED <<url, k6Outputs>>

\* steps.js:22: k6Outputs = [], before anything else in the step
ResetOutputsKept(outs) == outs
ResetOutputs(outs) == <<>>

\* When("I load the subcomponents with selectors and text")
WhenLoadSubcomponents ==
    /\ phase = "when"
    /\ \E n \in 0..MaxRows, envFileReadable \in BOOLEAN :
       \E runs \in [1..n -> RunsOffered(n)] :
         LET rows == DataTable(n) IN
         IF url \in {NullUrl, ""}
         THEN /\ k6Outputs' = ResetOutputs(k6Outputs)
              /\ engineRuns' = <<>>
              /\ stepResult' = Result("loadSub", "fail", "url_not_set", <<>>, "", 0, <<>>)
              /\ phase' = "done"
         ELSE IF ~envFileReadable
         THEN /\ k6Outputs' = ResetOutputs(k6Outputs)
              /\ engineRuns' = <<>>
              /\ stepResult' = Result("loadSub", "fail", "env_file", <<>>, "", 0, <<>>)
              /\ phase' = "done"
         ELSE /\ k6Outputs' = ResetOutputs(k6Outputs) \o
                               [i \in 1..n |->
                                 [selector |-> rows[i], output |-> Captured(runs[i])]]
              /\ engineRuns' = runs
              /\ stepResult' = Result("loadSub", "pass", "none", <<>>, "", 0, <<>>)
              /\ phase' = "then"
    /\ UNCHANGED <<url, k6Output>>

\* The loop of steps.js:124-151 from entry i on; acc holds the load times
\* extracted so far.
RECURSIVE SubValidate(_, _, _, _)
SubValidate(outs, i, maxTime, acc) ==
    IF i > Len(outs)
    THEN Result("thenSub", "pass", "none", <<>>, "", maxTime, acc)
    ELSE LET m == SubMatch(outs[i].output)
             loadTime == SubLoadTime(m)
         IN  IF ~m.found
             THEN Result("thenSub", "fail", "metric_not_found", outs[i].output,
                         outs[i].selector, maxTime, acc)
             ELSE IF ThresholdFails(loadTime, maxTime)
             THEN Result("thenSub", "fail", "threshold", <<>>,
                         outs[i].selector, maxTime, Append(acc, loadTime))
             ELSE SubValidate(outs, i + 1, maxTime, Append(acc, loadTime))

\* Then("each subcomponent load time should be less than {int} seconds")
ThenSubcomponentLoadTime ==
    /\ phase = "then"
    /\ \E maxTime \in MaxTimes :
         stepResult' =
            IF Len(k6Outputs) = 0
            THEN Result("thenSub", "fail", "no_output", <<>>, "", maxTime, <<>>)
            ELSE SubValidate(k6Outputs, 1, maxTime, <<>>)
    /\ phase' = "done"
    /\ UNCHANGED <<url, k6Output, k6Outputs, engineRuns>>

\* Then("the main page load time should be less than {int} seconds")
ThenMainPageLoadTime ==
    /\ phase = "then"
    /\ \E maxTime \in MaxTimes :
         LET m == MainMatch(k6Output.text)
             loadTime == MainLoadTime(m)
         IN  stepResult' =
               IF Falsy(k6Output)
               THEN Result("thenMain", "fail", "no_output", <<>>, "", maxTime, <<>>)
               ELSE IF ~m.found
               THEN Result("thenMain", "fail", "metric_not_found", k6Output.text,
                           "", maxTime, <<>>)
               ELSE IF ThresholdFails(loadTime, maxTime)
               THEN Result("thenMain", "fail", "threshold", <<>>, "", maxTime,
                           <<loadTime>>)
               ELSE Result("thenMain", "pass", "none", <<>>, "", maxTime,
                           <<loadTime>>)
    /\ phase' = "done"
    /\ UNCHANGED <<url, k6Output, k6Outputs, engineRuns>>

\* what the earlier scenarios of the process left in the module variables
Left(out, outs) == [main |-> ~out.isNull, rows |-> Len(outs)]

\* the process has run no scenario yet
FirstScenario == earlier = Left(NullStr, <<>>)

\* The scenario ends where it is: after its last step, or with the steps
\* after a failed one skipped.  The next scenario starts; url, k6Output and
\* k6Outputs are variables of the module (steps.js:9-11) and no step or hook
\* assigns them between scenarios.
NextScenario ==
    /\ phase \in {"when", "then", "done"}
    /\ phase' = "given"
    /\ stepResult' = NoResult
    /\ engineRuns' = <<>>
    /\ earlier' = Left(k6Output, k6Outputs)
    /\ UNCHANGED <<url, k6Output, k6Outputs>>

-----------------------------------------------------------------------------
(* The engine script: configuration *)

UNDEFINED == "<undefined>"

Undefined == [defined |-> FALSE, text |-> <<>>]
Val(t) == [defined |-> TRUE, text |-> t]

RECURSIVE TrimLeft(_)
TrimLeft(t) ==
    IF Len(t) > 0 /\ Head(t) \in WhiteSpace THEN TrimLeft(Tail(t)) ELSE t

RECURSIVE TrimRight(_)
TrimRight(t) ==
    IF Len(t) > 0 /\ t[Len(t)] \in WhiteSpace
    THEN TrimRight(SubSeq(t, 1, Len(t) - 1)) ELSE t

\* __ENV.X?.trim()
Trim(v) == IF v.defined THEN Val(TrimRight(TrimLeft(v.text))) ELSE Undefined

\* !v for an optional string
Missing(v) == ~v.defined \/ v.text = <<>>

\* CONFIG (the fields one iteration reads)
ConfigTestUrl == Trim(ENV.TEST_URL)
ConfigSelector == Trim(ENV.SUBCOMPONENT_SELECTOR)
ConfigExpectedText == Trim(ENV.EXPECTED_TEXT)
ConfigScreenshots == ENV.ENABLE_SCREENSHOTS # "false"
ConfigHighlighting == ENV.ENABLE_HIGHLIGHTING # "false"
ConfigNetworkCondition ==
    IF ENV.K6_NETWORK_CONDITION \in {UNDEFINED, ""} THEN "WIFI"
    ELSE ENV.K6_NETWORK_CONDITION
ConfigCpuThrottling == IF ENV.K6_CPU_THROTTLING = "4" THEN 4 ELSE 1

\* /^https?:\/\/[^\s]+$/.test(u)
UrlPatternTest(u) ==
    LET p == IF IsPrefix(<<"h", "t", "t", "p">>, u)
             THEN (IF At(u, 5) = "s" THEN 6 ELSE 5)
             ELSE 0
    IN  /\ p > 0
        /\ At(u, p) = ":" /\ At(u, p + 1) = "/" /\ At(u, p + 2) = "/"
        /\ Len(u) >= p + 3
        /\ \A i \in (p + 3)..Len(u) : u[i] \notin WhiteSpace

\* the characters of [a-zA-Z0-9\[\]="':._#\-\s\(\),>+~*|^$]
SelectorChar ==
    {"a", "b", "d", "o", "y", "p", "0", "[", "]", "=", "\"", "'", ":", ".",
     "_", "#", "-", " ", "\n", "(", ")", ",", ">", "+", "~", "*", "|", "^", "$"}

\* /^[...]+$/ on the selector
SelectorPatternTest(t) == Len(t) > 0 /\ \A i \in 1..Len(t) : t[i] \in SelectorChar

Violation(rule, text) == [rule |-> rule, text |-> text]

UrlErrors ==
    IF Missing(ConfigTestUrl)
    THEN <<Violation("TEST_URL is required and cannot be empty", <<>>)>>
    ELSE IF ~UrlPatternTest(ConfigTestUrl.text)
    THEN <<Violation("TEST_URL must be a valid URL with http or https protocol",
                     ConfigTestUrl.text)>>
    ELSE <<>>

SelectorErrors ==
    IF ~Missing(ConfigSelector) /\ ~SelectorPatternTest(ConfigSelector.text)
    THEN <<Violation("SUBCOMPONENT_SELECTOR must be a valid CSS selector",
                     ConfigSelector.text)>>
    ELSE <<>>

\* validateRequiredEnvironmentVariables: the list it throws with
ValidationErrorsFirstOnly ==
    IF UrlErrors # <<>> THEN UrlErrors ELSE SelectorErrors
ValidationErrors == UrlErrors \o SelectorErrors

\* values of TEST_URL
UrlInputs ==
    { Undefined, Val(<<>>), Val(<<" ", " ">>),
      Val(<<"h", "t", "t", "p", ":", "/", "/", "a">>),
      Val(<<" ", "h", "t", "t", "p", "s", ":", "/", "/", "a", ".", "b", " ">>),
      Val(<<"f", "t", "p", ":", "/", "/", "a">>),
      Val(<<"h", "t", "t", "p", ":", "/", "/">>),
      Val(<<"h", "t", "t", "p", "s", ":", "/", "/", "a", " ", "b">>),
      Val(<<"a", ".", "b">>) }

\* values of SUBCOMPONENT_SELECTOR
SelectorInputs ==
    { Undefined, Val(<<" ">>),
      Val(<<"b", "o", "d", "y">>),
      Val(<<" ", "#", "a", "p", "p", " ", ">", " ", ".", "a", " ">>),
      Val(<<"d", "{", "}">>),
      Val(<<"a", "/", "b">>),
      Val(<<"@">>) }

Envs ==
    [TEST_URL : UrlInputs,
     SUBCOMPONENT_SELECTOR : SelectorInputs,
     EXPECTED_TEXT : {Undefined, Val(<<"G", "o">>)},
     ENABLE_SCREENSHOTS : {UNDEFINED, "false"},
     K6_NETWORK_CONDITION : {UNDEFINED, "4G"},
     K6_CPU_THROTTLING : {UNDEFINED, "4"},
     ENABLE_HIGHLIGHTING : {UNDEFINED},
     SCENARIO_NAME : {Undefined},
     SCENARIO_TAGS : {Undefined}]

-----------------------------------------------------------------------------
(* The engine script: one iteration (export default async function) *)

Metrics ==
    {"main_page_load_time", "subcomponent_load_time", "api_response_time",
     "dom_content_loaded_time", "network_idle_time"}

NoError == [kind |-> "none", violations |-> <<>>]
Error(kind) == [kind |-> kind, violations |-> <<>>]

AddSample(s, m) == [s EXCEPT ![m] = @ + 1]

\* takeScreenshot as its caller sees it: null when screenshots are disabled
\* or the capture failed, the path otherwise
Shot(testType, status, captured) ==
    [testType |-> testType, status |-> status,
     result |-> IF ConfigScreenshots /\ captured THEN "path" ELSE "null"]

\* the flags of a ComponentState
Flags == {"isVisible", "isEnabled", "isInteractable", "containsExpectedText",
          "expectedTextIsVisible", "paintWorkCompleted"}

State(v, e, i, c, t, p) ==
    [isVisible |-> v, isEnabled |-> e, isInteractable |-> i,
     containsExpectedText |-> c, expectedTextIsVisible |-> t,
     paintWorkCompleted |-> p]

\* performReactComponentChecks: the names of the failed checks
FailedChecksFirstOnly(cs, text) ==
    LET names == <<"Component is visible", "Component is enabled",
                   "Component is interactable", "Component paint work completed",
                   "Component contains expected text", "Expected text is visible">>
        passed == <<cs.isVisible, cs.isEnabled, cs.isInteractable,
                    cs.paintWorkCompleted, cs.containsExpectedText,
                    cs.expectedTextIsVisible>>
        n == IF Missing(text) THEN 4 ELSE 6
        failed == {i \in 1..n : ~passed[i]}
    IN  IF failed = {} THEN <<>>
        ELSE <<names[CHOOSE i \in failed : \A j \in failed : i <= j]>>
FailedChecks(cs, text) ==
    LET names == <<"Component is visible", "Component is enabled",
                   "Component is interactable", "Component paint work completed",
                   "Component contains expected text", "Expected text is visible">>
        passed == <<cs.isVisible, cs.isEnabled, cs.isInteractable,
                    cs.paintWorkCompleted, cs.containsExpectedText,
                    cs.expectedTextIsVisible>>
        n == IF Missing(text) THEN 4 ELSE 6
    IN  SelectSeq([i \in 1..n |-> IF passed[i] THEN "" ELSE names[i]],
                  LAMBDA x : x # "")

\* states waitForReactComponentReady hands to measureReactComponentPerformance:
\* isInteractable is assigned right after isEnabled, a true paintWorkCompleted
\* ends the loop in the tick that found every flag true, and without an
\* expected text the two text flags are assigned together
ReturnedStates(text) ==
    { cs \in [Flags -> BOOLEAN] :
        /\ cs.isInteractable = cs.isEnabled
        /\ cs.paintWorkCompleted =>
             \A f \in Flags : cs[f]
        /\ Missing(text) => cs.containsExpectedText = cs.expectedTextIsVisible }

IterInit ==
    /\ ENV \in Envs
    /\ pc = "validate"
    /\ context = "none"
    /\ page = "none"
    /\ calls = <<>>
    /\ samples = [m \in Metrics |-> 0]
    /\ shots = <<>>
    /\ pending = NoError
    /\ outcome = "none"
    /\ measured = <<>>
    /\ result = [type |-> "none"]
    /\ faults = {}

\* line 975: validateRequiredEnvironmentVariables()
ValidateContinues ==
    /\ pc = "validate"
    /\ calls' = Append(calls, "validate")
    /\ pc' = "http"
    /\ UNCHANGED <<ENV, context, page, samples, shots, pending, outcome, measured, result, faults>>
Validate ==
    /\ pc = "validate"
    /\ calls' = Append(calls, "validate")
    /\ IF ValidationErrors # <<>>
       THEN /\ pending' = [kind |-> "config", violations |-> ValidationErrors]
            /\ outcome' = "raised"
            /\ pc' = "end"
       ELSE /\ pc' = "http"
            /\ UNCHANGED <<pending, outcome>>
    /\ UNCHANGED <<ENV, context, page, samples, shots, measured, result, faults>>

\* lines 979-1013: the HTTP connectivity check; a failed check only warns,
\* an error of http.get is rethrown
HttpConnectivityCheck ==
    /\ pc = "http"
    /\ calls' = Append(calls, "http.get")
    /\ \E ok \in BOOLEAN :
         IF ok
         THEN pc' = "newContext" /\ UNCHANGED <<pending, outcome, faults>>
         ELSE /\ pending' = Error("http")
              /\ outcome' = "raised"
              /\ pc' = "end"
              /\ faults' = faults \union {"http.get"}
    /\ UNCHANGED <<ENV, context, page, samples, shots, measured, result>>

\* line 1020: context = await browser.newContext(browserOptions)
NewContext ==
    /\ pc = "newContext"
    /\ calls' = Append(calls, "browser.newContext")
    /\ \E ok \in BOOLEAN :
         IF ok
         THEN context' = "open" /\ pc' = "newPage" /\ UNCHANGED <<pending, faults>>
         ELSE /\ pending' = Error("session")
              /\ pc' = "catch"
              /\ faults' = faults \union {"browser.newContext"}
              /\ UNCHANGED context
    /\ UNCHANGED <<ENV, page, samples, shots, outcome, measured, result>>

\* line 1021: page = await context.newPage()
NewPage ==
    /\ pc = "newPage"
    /\ calls' = Append(calls, "context.newPage")
    /\ \E ok \in BOOLEAN :
         IF ok
         THEN page' = "open" /\ pc' = "goto" /\ UNCHANGED <<pending, faults>>
         ELSE /\ pending' = Error("session")
              /\ pc' = "catch"
              /\ faults' = faults \union {"context.newPage"}
              /\ UNCHANGED page
    /\ UNCHANGED <<ENV, context, samples, shots, outcome, measured, result>>

\* measureReactUIPerformance, lines 850-855: page.goto
Goto ==
    /\ pc = "goto"
    /\ calls' = Append(calls, "page.goto")
    /\ \E ok \in BOOLEAN :
         IF ok
         THEN pc' = "simulate" /\ UNCHANGED <<pending, faults>>
         ELSE /\ pending' = Error("navigation")
              /\ pc' = "catch"
              /\ faults' = faults \union {"page.goto"}
    /\ UNCHANGED <<ENV, context, page, samples, shots, outcome, measured, result>>

\* the catch clause of applySimulationConditions, lines 493-495: the error
\* of an emulation call is logged, nothing is rethrown
SimulationErrorRethrown(failed) ==
    IF failed THEN Error("simulation") ELSE NoError
SimulationError(failed) == NoError

\* applySimulationConditions: both emulation calls sit in one try block, so
\* a failing network emulation skips the CPU throttling
ApplySimulationConditions ==
    /\ pc = "simulate"
    /\ \E netOk \in BOOLEAN, cpuOk \in BOOLEAN :
         LET net == ConfigNetworkCondition # "WIFI"
             cpu == ConfigCpuThrottling > 1
             netFailed == net /\ ~netOk
             cpuCalled == cpu /\ ~netFailed
             cpuFailed == cpuCalled /\ ~cpuOk
             c1 == IF net THEN Append(calls, "page.emulateNetworkConditions")
                   ELSE calls
         IN  /\ calls' = IF cpuCalled
                         THEN Append(c1, "page.emulateCPUThrottling")
                         ELSE c1
             /\ faults' = faults
                   \union (IF netFailed THEN {"page.emulateNetworkConditions"} ELSE {})
                   \union (IF cpuFailed THEN {"page.emulateCPUThrottling"} ELSE {})
             /\ pending' = SimulationError(netFailed \/ cpuFailed)
             /\ pc' = IF pending'.kind = "none" THEN "measure" ELSE "catch"
    /\ UNCHANGED <<ENV, context, page, samples, shots, outcome, measured, result>>

\* what measureReactUIPerformance returns
NoMeasurement == [type |-> "none"]
ComponentResult == [type |-> "component"]
PageResult(idleOk) == [type |-> "page", networkIdleSuccess |-> idleOk]

\* the catch clause of takeScreenshot, lines 271-274: a failed capture is
\* logged and null is returned; the error in flight, if any, stays the same
AfterShotRaising(err, captured) ==
    IF ConfigScreenshots /\ ~captured THEN Error("screenshot") ELSE err
AfterShot(err, captured) == err

ShotFaults(captured) ==
    IF ConfigScreenshots /\ ~captured THEN {"page.screenshot"} ELSE {}

\* lines 720-721: performReactComponentChecks throws before
\* metrics.subcomponentLoadTime.add is reached
ComponentSampleAlways(s, passed) == AddSample(s, "subcomponent_load_time")
ComponentSample(s, passed) ==
    IF passed THEN AddSample(s, "subcomponent_load_time") ELSE s

\* measureReactComponentPerformance
MeasureComponent ==
    /\ pc = "measure"
    /\ ~Missing(ConfigSelector)
    /\ \E cs \in ReturnedStates(ConfigExpectedText), captured \in BOOLEAN :
         /\ measured' = <<cs>>
         /\ faults' = faults \union ShotFaults(captured)
         /\ IF FailedChecks(cs, ConfigExpectedText) = <<>>
            THEN /\ samples' = ComponentSample(samples, TRUE)
                 /\ shots' = Append(shots, Shot("component", "pass", captured))
                 /\ pending' = AfterShot(NoError, captured)
                 /\ IF pending'.kind = "none"
                    THEN pc' = "closePage" /\ result' = ComponentResult
                    ELSE pc' = "catch" /\ UNCHANGED result
            ELSE /\ shots' = Append(shots, Shot("component", "fail", captured))
                 /\ pending' = AfterShot(
                        [kind |-> "validation",
                         violations |-> FailedChecks(cs, ConfigExpectedText)],
                        captured)
                 /\ samples' = ComponentSample(samples, FALSE)
                 /\ pc' = "catch"
                 /\ UNCHANGED result
    /\ calls' = Append(calls, "measure")
    /\ UNCHANGED <<ENV, context, page, outcome>>

\* measureReactPagePerformance, lines 773-780: an error of the network-idle
\* wait is logged and leaves networkIdleSuccess false
IdleErrorRethrown(idleOk) ==
    IF idleOk THEN NoError ELSE Error("measurement")
IdleError(idleOk) == NoError

\* measureReactPagePerformance
MeasurePage ==
    /\ pc = "measure"
    /\ Missing(ConfigSelector)
    /\ \E domOk \in BOOLEAN, idleOk \in BOOLEAN, captured \in BOOLEAN :
         /\ faults' = faults \union ShotFaults(captured)
               \union (IF ~domOk THEN {"domcontentloaded"} ELSE {})
               \union (IF domOk /\ ~idleOk THEN {"networkidle"} ELSE {})
         /\ IF domOk /\ IdleError(idleOk).kind = "none"
            THEN /\ samples' = AddSample(AddSample(AddSample(samples,
                                  "dom_content_loaded_time"), "network_idle_time"),
                                  "main_page_load_time")
                 /\ shots' = Append(shots,
                               Shot("page", IF idleOk THEN "pass" ELSE "partial",
                                    captured))
                 /\ pending' = AfterShot(NoError, captured)
                 /\ IF pending'.kind = "none"
                    THEN pc' = "closePage" /\ result' = PageResult(idleOk)
                    ELSE pc' = "catch" /\ UNCHANGED result
            ELSE /\ samples' = IF domOk
                               THEN AddSample(samples, "dom_content_loaded_time")
                               ELSE samples
                 /\ shots' = Append(shots, Shot("page", "fail", captured))
                 /\ pending' = AfterShot(Error("measurement"), captured)
                 /\ pc' = "catch"
                 /\ UNCHANGED result
    /\ calls' = Append(calls, "measure")
    /\ UNCHANGED <<ENV, context, page, outcome, measured>>

\* lines 1031-1042: the catch block takes a screenshot if the page exists
CatchError ==
    /\ pc = "catch"
    /\ \E captured \in BOOLEAN :
         /\ shots' = IF page # "none"
                     THEN Append(shots, Shot("error", "fail", captured))
                     ELSE shots
         /\ faults' = IF page # "none"
                      THEN faults \union ShotFaults(captured)
                      ELSE faults
         /\ pending' = IF page # "none" THEN AfterShot(pending, captured)
                       ELSE pending
    /\ pc' = "closePage"
    /\ UNCHANGED <<ENV, context, page, calls, samples, outcome, measured, result>>

\* lines 1054-1056: catch (cleanupError) { logger.warn(...) }: the error of
\* a close call is logged, the error in flight, if any, stays the same
AfterCleanupRaising(err, ok) == IF ok THEN err ELSE Error("cleanup")
AfterCleanup(err, ok) == err

\* lines 1045-1049: if (page) await page.close(); an error of close leaves
\* the try block of the finally clause
ClosePage ==
    /\ pc = "closePage"
    /\ IF page = "none"
       THEN pc' = "closeContext" /\ UNCHANGED <<page, calls, faults, pending>>
       ELSE /\ calls' = Append(calls, "page.close")
            /\ \E ok \in BOOLEAN :
                 /\ pending' = AfterCleanup(pending, ok)
                 /\ IF ok THEN page' = "closed" /\ pc' = "closeContext"
                               /\ UNCHANGED faults
                    ELSE page' = "closeFailed" /\ pc' = "finish"
                         /\ faults' = faults \union {"page.close"}
    /\ UNCHANGED <<ENV, context, samples, shots, outcome, measured, result>>

\* lines 1050-1053: if (context) await context.close()
CloseContext ==
    /\ pc = "closeContext"
    /\ IF context = "none"
       THEN UNCHANGED <<context, calls, faults, pending>>
       ELSE /\ calls' = Append(calls, "context.close")
            /\ \E ok \in BOOLEAN :
                 /\ pending' = AfterCleanup(pending, ok)
                 /\ context' = IF ok THEN "closed" ELSE "closeFailed"
                 /\ faults' = IF ok THEN faults
                              ELSE faults \union {"context.close"}
    /\ pc' = "finish"
    /\ UNCHANGED <<ENV, page, samples, shots, outcome, measured, result>>

\* the end of the finally clause: return result, or rethrow the error
Finish ==
    /\ pc = "finish"
    /\ outcome' = IF pending.kind = "none" THEN "returned" ELSE "raised"
    /\ pc' = "end"
    /\ UNCHANGED <<ENV, context, page, calls, samples, shots, pending, measured, result, faults>>

-----------------------------------------------------------------------------
(* measureReactUIPerformance: network monitoring (lines 809-848, 882-885) *)

\* line 812: apiMethods
ApiMethods == {"GET", "POST", "PUT", "PATCH", "DELETE"}

\* the methods the page's requests carry
WireMethods == {"GET", "post", "HEAD"}

\* String.prototype.toUpperCase on the methods in use
ToUpperCase(m) == IF m = "post" THEN "POST" ELSE m

WireUrls == {"/api/a", "/b"}

Statuses == {200}

\* req._guid of the request numbered rid, when the request object has one
Guid(rid) == <<"guid-1", "guid-2", "guid-3", "guid-4", "guid-5">>[rid]

\* lines 819 and 834: requestId = req._guid || req.url()
RequestId(req) == IF req.hasGuid THEN Guid(req.rid) ELSE req.url

\* lines 818 and 833: apiMethods.includes(method?.toUpperCase())
IsApiMethod(m) == ToUpperCase(m) \in ApiMethods

\* Map.prototype.set and Map.prototype.delete
MapSet(m, k, v) == [x \in DOMAIN m \union {k} |-> IF x = k THEN v ELSE m[x]]
MapDelete(m, k) == [x \in DOMAIN m \ {k} |-> m[x]]
EmptyMap == [x \in {} |-> 0]

NetInit ==
    /\ netLogging \in BOOLEAN
    /\ netNow = 0
    /\ wire = <<>>
    /\ requestTimings = EmptyMap
    /\ networkLogs = <<>>
    /\ apiSamples = <<>>
    /\ netPc = "monitoring"

\* no page is monitored
NetIdle ==
    /\ netLogging = FALSE
    /\ netNow = 0
    /\ wire = <<>>
    /\ requestTimings = EmptyMap
    /\ networkLogs = <<>>
    /\ apiSamples = <<>>
    /\ netPc = "done"

\* time passes
NetTick ==
    /\ netPc = "monitoring"
    /\ netNow < MaxNetTime
    /\ netNow' = netNow + 1
    /\ UNCHANGED <<netLogging, wire, requestTimings, networkLogs, apiSamples, netPc>>

\* lines 815-827: the page sends a request and the request listener runs
OnRequest ==
    /\ netPc = "monitoring"
    /\ Len(wire) < MaxRequests
    /\ \E method \in WireMethods, u \in WireUrls, hasGuid \in BOOLEAN :
         LET req == [rid |-> Len(wire) + 1, method |-> method, url |-> u,
                     hasGuid |-> hasGuid, at |-> netNow, answered |-> FALSE]
         IN  /\ wire' = Append(wire, req)
             /\ requestTimings' =
                  IF netLogging /\ IsApiMethod(method)
                  THEN MapSet(requestTimings, RequestId(req),
                              [start |-> netNow, method |-> ToUpperCase(method),
                               url |-> u])
                  ELSE requestTimings
    /\ UNCHANGED <<netLogging, netNow, networkLogs, apiSamples, netPc>>

\* line 833: the response listener looks only at responses to requests
\* with an API method
MethodFilterOff(req) == TRUE
MethodFilter(req) == IsApiMethod(req.method)

\* lines 835-836: and only when the map holds a timing under the identifier
\* of the request
TimingFoundAlways(req) == TRUE
TimingFound(req) == RequestId(req) \in DOMAIN requestTimings

Logged(req) == MethodFilter(req) /\ TimingFound(req)

\* line 845: requestTimings.delete(requestId)
AfterMatchKept(m, id) == m
AfterMatch(m, id) == MapDelete(m, id)

\* lines 829-847: a response arrives and the response listener runs; rid
\* and at record which request was answered and when
OnResponse ==
    /\ netPc = "monitoring"
    /\ \E r \in 1..Len(wire), status \in Statuses :
         LET req == wire[r]
             id == RequestId(req)
         IN  /\ ~req.answered
             /\ wire' = [wire EXCEPT ![r].answered = TRUE]
             /\ IF netLogging /\ Logged(req)
                THEN /\ networkLogs' = Append(networkLogs,
                          [method |-> ToUpperCase(req.method), url |-> req.url,
                           responseTime |->
                               IF id \in DOMAIN requestTimings
                               THEN netNow - requestTimings[id].start
                               ELSE 0 - 1,
                           status |-> status, rid |-> r, at |-> netNow])
                     /\ requestTimings' =
                          IF id \in DOMAIN requestTimings
                          THEN AfterMatch(requestTimings, id)
                          ELSE requestTimings
                ELSE UNCHANGED <<networkLogs, requestTimings>>
    /\ UNCHANGED <<netLogging, netNow, apiSamples, netPc>>

\* line 922: apiRequests.slice(0, 10)
TopN == 10

\* Array.prototype.sort with (a, b) => b.responseTime - a.responseTime:
\* slowest first, equal elements keep their order
RECURSIVE SortSlowestFirst(_)
SortSlowestFirst(logs) ==
    IF logs = <<>> THEN <<>>
    ELSE LET i == CHOOSE i \in 1..Len(logs) :
                    /\ \A j \in 1..Len(logs) :
                         logs[j].responseTime <= logs[i].responseTime
                    /\ \A j \in 1..(i - 1) :
                         logs[j].responseTime < logs[i].responseTime
         IN  <<logs[i]>> \o
             SortSlowestFirst([k \in 1..(Len(logs) - 1) |->
                                  IF k < i THEN logs[k] ELSE logs[k + 1]])

\* log.url.includes("/api/")
IsApiUrl(u) == u = "/api/a"

\* lines 882-885 and logNetworkPerformance: the measurement returned; the
\* logs are sorted in place and the slowest API requests become samples
LogNetworkPerformance ==
    /\ netPc = "monitoring"
    /\ netPc' = "done"
    /\ IF netLogging /\ Len(networkLogs) > 0
       THEN LET sorted == SortSlowestFirst(networkLogs)
                api == SelectSeq(sorted, LAMBDA l : IsApiUrl(l.url))
                n == IF Len(api) < TopN THEN Len(api) ELSE TopN
            IN  /\ networkLogs' = sorted
                /\ apiSamples' = [k \in 1..n |-> api[k].responseTime]
       ELSE UNCHANGED <<networkLogs, apiSamples>>
    /\ UNCHANGED <<netLogging, netNow, wire, requestTimings>>

-----------------------------------------------------------------------------
(* takeScreenshot, applyHighlighting, removeHighlighting *)

Letters ==
    {"a", "b", "c", "d", "e", "f", "g", "h", "i", "j", "k", "l", "m", "n", "o", "p", "q", "r", "s", "t", "u", "v", "w", "x", "y", "z"}
    \union
    {"A", "B", "C", "D", "E", "F", "G", "H", "I", "J", "K", "L", "M", "N", "O", "P", "Q", "R", "S", "T", "U", "V", "W", "X", "Y", "Z"}

\* [a-zA-Z0-9]
Alnum == Letters \union Digit

Min(a, b) == IF a <= b THEN a ELSE b

\* replace(/[...]/g, "") with a class of characters to delete
RemoveAll(t, S) == SelectSeq(t, LAMBDA c : c \notin S)

\* replace(/[^...]/g, "") with a class of characters to keep
KeepOnly(t, S) == SelectSeq(t, LAMBDA c : c \in S)

\* replace(/\s+/g, "_")
RECURSIVE ReplaceSpaceRuns(_)
ReplaceSpaceRuns(t) ==
    IF t = <<>> THEN <<>>
    ELSE IF Head(t) \in WhiteSpace
         THEN <<"_">> \o ReplaceSpaceRuns(SubSeq(t, SkipWhile(t, 1, WhiteSpace), Len(t)))
         ELSE <<Head(t)>> \o ReplaceSpaceRuns(Tail(t))

\* substring(0, n)
Substring(t, n) == SubSeq(t, 1, Min(n, Len(t)))

\* the decimal digits of a number
RECURSIVE Decimal(_)
Decimal(n) ==
    LET d == <<"0", "1", "2", "3", "4", "5", "6", "7", "8", "9">>[(n % 10) + 1]
    IN  IF n < 10 THEN <<d>> ELSE Decimal(n \div 10) \o <<d>>

\* lines 204-207: new Date().toISOString().replace(/[:.]/g, "-").slice(0, -5)
\* at the instant of the capture
Timestamp == <<"2", "0", "2", "6", "-", "0", "1", "-", "0", "1", "T", "0", "0", "-", "0", "0", "-", "0", "0">>

UnknownScenario == <<"u", "n", "k", "n", "o", "w", "n", "_", "s", "c", "e", "n", "a", "r", "i", "o">>

\* lines 216-219: scenarioName
ScenarioName(name) ==
    Substring(ReplaceSpaceRuns(KeepOnly(
        IF Missing(name) THEN UnknownScenario ELSE name.text,
        Alnum \union WhiteSpace)), 30)

\* lines 221-224: scenarioTags
ScenarioTags(tags) ==
    Substring(ReplaceSpaceRuns(RemoveAll(
        IF Missing(tags) THEN <<>> ELSE tags.text, {"@", ","})), 20)

\* lines 226-231: cleanExpectedText
CleanExpectedText(text) ==
    IF Missing(text) THEN <<>>
    ELSE Substring(ReplaceSpaceRuns(KeepOnly(text.text, Alnum \union WhiteSpace)), 15)

\* the characters of the testType and status arguments
Chars(word) ==
    CASE word = "component" -> <<"c", "o", "m", "p", "o", "n", "e", "n", "t">>
      [] word = "page" -> <<"p", "a", "g", "e">>
      [] word = "error" -> <<"e", "r", "r", "o", "r">>
      [] word = "pass" -> <<"p", "a", "s", "s">>
      [] word = "fail" -> <<"f", "a", "i", "l">>
      [] word = "partial" -> <<"p", "a", "r", "t", "i", "a", "l">>

\* Array.prototype.join("_")
RECURSIVE Join(_)
Join(parts) ==
    IF parts = <<>> THEN <<>>
    ELSE IF Len(parts) = 1 THEN parts[1]
    ELSE parts[1] \o <<"_">> \o Join(Tail(parts))

\* lines 233-244: the parts of the filename; filter(Boolean) drops the empty
\* ones
VuPartWithoutWorker(v) == <<"V", "U">>
VuPart(v) == <<"V", "U">> \o Decimal(v.idInTest)

FilenameParts(name, tags, args, v) ==
    SelectSeq(<<Timestamp, ScenarioName(name), ScenarioTags(tags),
                Chars(args.testType), Chars(args.status),
                CleanExpectedText(args.text),
                VuPart(v),
                <<"I", "t", "e", "r">> \o Decimal(v.iterationInScenario)>>,
              LAMBDA part : part # <<>>)

\* line 246: filename
Filename(name, tags, args, v) ==
    Join(FilenameParts(name, tags, args, v)) \o <<".", "p", "n", "g">>

\* values of SCENARIO_NAME
ScenarioNames ==
    { Undefined,
      Val(<<"L", "o", "a", "d", " ", "m", "a", "i", "n", " ", "p", "a", "g", "e">>),
      Val(<<"M", "a", "i", "n", " ", "p", "a", "g", "e", " ", "l", "o", "a", "d", "s", ",", " ", "u", "n", "d", "e", "r", " ", "5", " ", "s", "e", "c", "o", "n", "d", "s", " ", "#", "1">>) }

\* values of SCENARIO_TAGS, as hook.js joins the tag names with ", "
TagLists ==
    { Undefined,
      Val(<<"@", "4", "G", ",", " ", "@", "L", "o", "w", "C", "P", "U">>),
      Val(<<"@", "s", "m", "o", "k", "e", "-", "t", "e", "s", "t", ",", " ", "@", "u", "i">>),
      Val(<<"@", "p", "e", "r", "f", "o", "r", "m", "a", "n", "c", "e", ",", " ", "@", "r", "e", "g", "r", "e", "s", "s", "i", "o", "n">>) }

\* values of the expectedText argument
ExpectedTexts ==
    { Undefined,
      Val(<<"G", "o">>),
      Val(<<"V", "U", "1", "1", " ", "I", "t", "e", "r", "0", " ", "w", "e", "l", "c", "o", "m", "e", " ", "b", "a", "c", "k", "!">>) }

\* the calls of takeScreenshot the script makes (lines 725-742, 791-801,
\* 1039)
ShotCalls ==
    [testType : {"component"}, status : {"pass", "fail"}, selector : {TRUE},
     text : ExpectedTexts]
    \union
    [testType : {"page"}, status : {"pass", "partial", "fail"},
     selector : {FALSE}, text : {Undefined}]
    \union
    [testType : {"error"}, status : {"fail"}, selector : {FALSE},
     text : {Undefined}]

\* vu.idInTest and vu.iterationInScenario
Workers == [idInTest : {1, 2, 11}, iterationInScenario : {0, 11}]

\* the elements a highlight can touch, and their inline style values
Els == {"e1", "e2"}
StyleValues == {"", "red"}
HighlightStyle == "rgba(255,255,0,0.8)"

ShotEnvs ==
    [TEST_URL : {Undefined}, SUBCOMPONENT_SELECTOR : {Undefined},
     EXPECTED_TEXT : {Undefined}, ENABLE_SCREENSHOTS : {UNDEFINED, "false"},
     K6_NETWORK_CONDITION : {UNDEFINED}, K6_CPU_THROTTLING : {UNDEFINED},
     ENABLE_HIGHLIGHTING : {UNDEFINED, "false"},
     SCENARIO_NAME : ScenarioNames,
     SCENARIO_TAGS : TagLists]

ShotInit ==
    /\ ENV \in ShotEnvs
    /\ shotArgs \in ShotCalls
    /\ vu \in Workers
    /\ spc = "start"
    /\ textEls \in {{}, {"e1"}, Els}
    /\ styles \in {[e \in Els |-> ""], [e \in Els |-> IF e = "e1" THEN "red" ELSE ""]}
    /\ marked = [e \in Els |-> FALSE]
    /\ original = styles
    /\ highlightedElements = <<>>
    /\ filename = <<>>
    /\ shotReturn = "none"
    /\ shotLog = {}
    /\ shotFaults = {}

\* no screenshot is being taken
ShotIdle ==
    /\ shotArgs = [testType |-> "error", status |-> "fail", selector |-> FALSE,
                   text |-> Undefined]
    /\ vu = [idInTest |-> 1, iterationInScenario |-> 0]
    /\ spc = "returned"
    /\ textEls = {}
    /\ styles = [e \in Els |-> ""]
    /\ marked = [e \in Els |-> FALSE]
    /\ original = [e \in Els |-> ""]
    /\ highlightedElements = <<>>
    /\ filename = <<>>
    /\ shotReturn = "none"
    /\ shotLog = {}
    /\ shotFaults = {}

\* lines 197-200: if (!CONFIG.features.screenshots) return null
ShotStart ==
    /\ spc = "start"
    /\ IF ~ConfigScreenshots
       THEN /\ shotReturn' = "null"
            /\ shotLog' = shotLog \union {"debug: screenshots disabled"}
            /\ spc' = "returned"
       ELSE /\ spc' = "highlight"
            /\ UNCHANGED <<shotReturn, shotLog>>
    /\ UNCHANGED <<shotArgs, vu, textEls, styles, marked, original,
                   highlightedElements, filename, shotFaults>>

\* lines 211 and 262: selector && testType === "component" &&
\* CONFIG.features.highlighting
Highlights == shotArgs.selector /\ shotArgs.testType = "component"
              /\ ConfigHighlighting

\* the elements the page function of applyHighlighting changes, in document
\* order: those whose text holds the expected text and that carry no marker
ToHighlight ==
    IF Missing(shotArgs.text) THEN <<>>
    ELSE SelectSeq(<<"e1", "e2">>, LAMBDA e : e \in textEls /\ ~marked[e])

\* lines 210-213 and applyHighlighting: an error of page.evaluate is caught
\* inside applyHighlighting and logged as a warning
ApplyHighlighting ==
    /\ spc = "highlight"
    /\ IF Highlights
       THEN \E ok \in BOOLEAN :
              IF ok
              THEN /\ IF Missing(shotArgs.text)
                      THEN UNCHANGED <<styles, marked, highlightedElements>>
                      ELSE /\ styles' = [e \in Els |->
                                  IF e \in textEls /\ ~marked[e]
                                  THEN HighlightStyle ELSE styles[e]]
                           /\ marked' = [e \in Els |-> marked[e] \/ e \in textEls]
                           /\ highlightedElements' =
                                  [i \in 1..Len(ToHighlight) |->
                                      [element |-> ToHighlight[i],
                                       original |-> styles[ToHighlight[i]]]]
                   /\ UNCHANGED <<shotLog, shotFaults>>
              ELSE /\ shotLog' = shotLog \union {"warn: could not highlight"}
                   /\ shotFaults' = shotFaults \union {"highlight"}
                   /\ UNCHANGED <<styles, marked, highlightedElements>>
       ELSE UNCHANGED <<styles, marked, highlightedElements, shotLog, shotFaults>>
    /\ spc' = "name"
    /\ UNCHANGED <<shotArgs, vu, textEls, original, filename, shotReturn>>

\* lines 215-247: the filename
ComputeFilename ==
    /\ spc = "name"
    /\ filename' = Filename(ENV.SCENARIO_NAME, ENV.SCENARIO_TAGS, shotArgs, vu)
    /\ spc' = "paint"
    /\ UNCHANGED <<shotArgs, vu, textEls, styles, marked, original,
                   highlightedElements, shotReturn, shotLog, shotFaults>>

\* lines 271-274: the catch clause of takeScreenshot
ReturnOnErrorRaises == "raised"
ReturnOnError == "null"

ShotFails(call) ==
    /\ shotFaults' = shotFaults \union {call}
    /\ shotLog' = shotLog \union {"error: failed to take screenshot"}
    /\ shotReturn' = ReturnOnError
    /\ spc' = "returned"

\* lines 249-256: the wait for two animation frames and the debounce
PaintWait ==
    /\ spc = "paint"
    /\ \E ok \in BOOLEAN :
         IF ok
         THEN spc' = "capture" /\ UNCHANGED <<shotFaults, shotLog, shotReturn>>
         ELSE ShotFails("paint")
    /\ UNCHANGED <<shotArgs, vu, textEls, styles, marked, original,
                   highlightedElements, filename>>

\* lines 257-261: page.screenshot
Capture ==
    /\ spc = "capture"
    /\ \E ok \in BOOLEAN :
         IF ok
         THEN spc' = "restore" /\ UNCHANGED <<shotFaults, shotLog, shotReturn>>
         ELSE ShotFails("capture")
    /\ UNCHANGED <<shotArgs, vu, textEls, styles, marked, original,
                   highlightedElements, filename>>

\* lines 263-270 and removeHighlighting: the highlight is removed after a
\* successful capture; an error of page.evaluate is caught inside
\* removeHighlighting and logged as a warning
RemoveHighlighting ==
    /\ spc = "restore"
    /\ IF Highlights
       THEN \E ok \in BOOLEAN :
              IF ok
              THEN /\ styles' = [e \in Els |->
                          IF \E i \in 1..Len(highlightedElements) :
                                 highlightedElements[i].element = e
                          THEN (CHOOSE h \in {highlightedElements[i] :
                                                 i \in 1..Len(highlightedElements)} :
                                    h.element = e).original
                          ELSE styles[e]]
                   /\ marked' = [e \in Els |->
                          marked[e] /\ ~\E i \in 1..Len(highlightedElements) :
                                           highlightedElements[i].element = e]
                   /\ highlightedElements' = <<>>
                   /\ UNCHANGED <<shotLog, shotFaults>>
              ELSE /\ shotLog' = shotLog \union {"warn: could not clean up highlighting"}
                   /\ shotFaults' = shotFaults \union {"restore"}
                   /\ UNCHANGED <<styles, marked, highlightedElements>>
       ELSE UNCHANGED <<styles, marked, highlightedElements, shotLog, shotFaults>>
    /\ shotReturn' = "path"
    /\ spc' = "returned"
    /\ UNCHANGED <<shotArgs, vu, textEls, original, filename>>

-----------------------------------------------------------------------------
(* waitForReactComponentReady *)

\* the floor of minCheckInterval, Math.max(50, CONFIG.pollInterval)
MinCheckFloor == 1

Max(a, b) == IF a >= b THEN a ELSE b

\* line 295: CONFIG.pollInterval, the interval of the run
ConfigPollIntervalShortened == PollInterval - 1
ConfigPollInterval == PollInterval

MinCheckInterval == Max(MinCheckFloor, ConfigPollInterval)

\* lastCheckTime = 0 is the epoch: further back than any interval
NoCheckYet == 0 - MinCheckInterval

\* page.waitForTimeout(CONFIG.pollInterval)
PollSleepWrong == Timeout
PollSleep == ConfigPollInterval

InitialState ==
    [isVisible |-> FALSE, isEnabled |-> FALSE, isInteractable |-> FALSE,
     containsExpectedText |-> FALSE, expectedTextIsVisible |-> FALSE,
     paintWorkCompleted |-> FALSE, loadTime |-> 0]

\* The page as the checks see it.  An element that is not attached is
\* neither visible nor enabled and has no text; without an expected text the
\* text conditions are not part of the page's state.
DomStates(text) ==
    { d \in [exists : BOOLEAN, visible : BOOLEAN, enabled : BOOLEAN,
             hasText : BOOLEAN, textVisible : BOOLEAN, complete : BOOLEAN] :
        /\ ~d.exists => (~d.visible /\ ~d.enabled /\ ~d.hasText)
        /\ text = "none" => (~d.hasText /\ ~d.textVisible) }

\* every applicable condition of the checklist holds on the page
AllReady(d, text) ==
    /\ d.exists /\ d.visible /\ d.enabled /\ d.complete
    /\ text # "none" => d.hasText
    /\ text = "text" => d.textVisible

Regresses(d, e) ==
    \/ d.exists /\ ~e.exists
    \/ d.visible /\ ~e.visible
    \/ d.enabled /\ ~e.enabled
    \/ d.hasText /\ ~e.hasText
    \/ d.textVisible /\ ~e.textVisible
    \/ d.complete /\ ~e.complete

DomFields == {"exists", "visible", "enabled", "hasText", "textVisible", "complete"}

\* one change of the page: one condition flips, or the element is detached
OneChange(d, e) ==
    \/ Cardinality({f \in DomFields : d[f] # e[f]}) = 1
    \/ /\ d.exists /\ ~e.exists
       /\ d.textVisible = e.textVisible /\ d.complete = e.complete

\* lines 557-558
InteractableWrong(visible, enabled) == visible
Interactable(visible, enabled) == visible /\ enabled

\* lines 607-612: a falsy loadTime is replaced by the elapsed time
FinalizeWrong(cs, t) == cs
Finalize(cs, t) ==
    IF cs.loadTime = 0 THEN [cs EXCEPT !.loadTime = t] ELSE cs

NoneFresh == [f \in Flags |-> FALSE]

PollInit ==
    /\ expectedText \in {"none", "text", "textLocatorThrows"}
    /\ now = 0
    /\ lastCheckTime = NoCheckYet
    /\ componentState = InitialState
    /\ ppc = "loop"
    /\ sleepLeft = 0
    /\ dom \in DomStates(expectedText)
    /\ fresh = NoneFresh
    /\ readyAt = IF AllReady(dom, expectedText) THEN 0 ELSE 0 - 1
    /\ regressed = FALSE
    /\ everVisible = dom.visible

\* start page.waitForTimeout(ms) and come back to the head of the loop
Sleep(ms) ==
    IF ms > 0 THEN ppc' = "sleep" /\ sleepLeft' = ms
    ELSE ppc' = "loop" /\ sleepLeft' = 0

\* lines 600-604: an error thrown by a check is caught and logged, the state
\* stays as it is and the loop goes on after the sleep of line 604
CaughtErrorEndsLoop ==
    /\ ppc' = "returned"
    /\ UNCHANGED <<sleepLeft, componentState, fresh>>
CaughtError ==
    /\ Sleep(PollSleep)
    /\ UNCHANGED <<componentState, fresh>>

\* the page changes under the poller
DomChange ==
    /\ ppc # "returned"
    /\ \E d \in DomStates(expectedText) \ {dom} :
         /\ OneChange(dom, d)
         /\ dom' = d
         /\ readyAt' = IF ~AllReady(d, expectedText) THEN 0 - 1
                       ELSE IF readyAt >= 0 THEN readyAt ELSE now
         /\ regressed' = (regressed \/ Regresses(dom, d))
         /\ everVisible' = (everVisible \/ d.visible)
    /\ UNCHANGED <<expectedText, now, lastCheckTime, componentState, ppc,
                   sleepLeft, fresh>>

\* lines 528-536: the loop condition and the throttle
LoopHead ==
    /\ ppc = "loop"
    /\ IF ~(now < Timeout)
       THEN /\ componentState' = Finalize(componentState, now)
            /\ ppc' = "returned"
            /\ UNCHANGED <<lastCheckTime, sleepLeft, fresh>>
       ELSE IF now - lastCheckTime < MinCheckInterval
       THEN /\ Sleep(MinCheckInterval - (now - lastCheckTime))
            /\ UNCHANGED <<lastCheckTime, componentState, fresh>>
       ELSE /\ lastCheckTime' = now
            /\ ppc' = "query"
            /\ fresh' = NoneFresh
            /\ UNCHANGED <<componentState, sleepLeft>>
    /\ UNCHANGED <<expectedText, now, dom, readyAt, regressed, everVisible>>

\* lines 538-542: const element = await page.$(selector)
QueryElement ==
    /\ ppc = "query"
    /\ \E d \in 0..MaxLatency : now' = now + d
    /\ IF dom.exists THEN ppc' = "visible" /\ UNCHANGED sleepLeft
       ELSE Sleep(PollSleep)
    /\ UNCHANGED <<expectedText, lastCheckTime, componentState, dom, fresh,
                   readyAt, regressed, everVisible>>

\* lines 545-549: componentState.isVisible = await element.isVisible();
\* on an element that was detached meanwhile the call answers false or throws
CheckVisible ==
    /\ ppc = "visible"
    /\ \E d \in 0..MaxLatency : now' = now + d
    /\ \E throws \in BOOLEAN :
         IF throws /\ ~dom.exists
         THEN CaughtError
         ELSE /\ componentState' = [componentState EXCEPT !.isVisible = dom.visible]
              /\ fresh' = [fresh EXCEPT !["isVisible"] = TRUE]
              /\ IF dom.visible THEN ppc' = "enabled" /\ UNCHANGED sleepLeft
                 ELSE Sleep(PollSleep)
    /\ UNCHANGED <<expectedText, lastCheckTime, dom, readyAt, regressed, everVisible>>

\* lines 552-560 and 587-590: isEnabled, isInteractable and, without an
\* expected text, the two text fields
CheckEnabled ==
    /\ ppc = "enabled"
    /\ \E d \in 0..MaxLatency : now' = now + d
    /\ \E throws \in BOOLEAN :
         IF throws /\ ~dom.exists
         THEN CaughtError
         ELSE LET inter == Interactable(componentState.isVisible, dom.enabled)
                  noText == inter /\ expectedText = "none"
              IN  /\ componentState' =
                       [componentState EXCEPT
                          !.isEnabled = dom.enabled,
                          !.isInteractable = inter,
                          !.containsExpectedText = IF noText THEN TRUE ELSE @,
                          !.expectedTextIsVisible = IF noText THEN TRUE ELSE @]
                  /\ fresh' = [fresh EXCEPT
                          !["isEnabled"] = TRUE,
                          !["isInteractable"] = TRUE,
                          !["containsExpectedText"] = IF noText THEN TRUE ELSE @,
                          !["expectedTextIsVisible"] = IF noText THEN TRUE ELSE @]
                  /\ IF ~inter THEN Sleep(PollSleep)
                     ELSE /\ ppc' = IF expectedText = "none" THEN "paint" ELSE "text"
                          /\ UNCHANGED sleepLeft
    /\ UNCHANGED <<expectedText, lastCheckTime, dom, readyAt, regressed, everVisible>>

\* lines 563-567: textContent?.includes(expectedText)
CheckText ==
    /\ ppc = "text"
    /\ \E d \in 0..MaxLatency : now' = now + d
    /\ \E throws \in BOOLEAN :
         IF throws /\ ~dom.exists
         THEN CaughtError
         ELSE /\ componentState' =
                   [componentState EXCEPT !.containsExpectedText = dom.hasText]
              /\ fresh' = [fresh EXCEPT !["containsExpectedText"] = TRUE]
              /\ IF dom.hasText THEN ppc' = "textVisible" /\ UNCHANGED sleepLeft
                 ELSE Sleep(PollSleep)
    /\ UNCHANGED <<expectedText, lastCheckTime, dom, readyAt, regressed, everVisible>>

\* lines 568-576: the text= locator; when it throws the field takes isVisible
CheckTextVisible ==
    /\ ppc = "textVisible"
    /\ \E d \in 0..MaxLatency : now' = now + d
    /\ LET v == IF expectedText = "textLocatorThrows"
                THEN componentState.isVisible ELSE dom.textVisible
       IN  /\ componentState' = [componentState EXCEPT !.expectedTextIsVisible = v]
           /\ fresh' = [fresh EXCEPT !["expectedTextIsVisible"] = TRUE]
           /\ IF v THEN ppc' = "paint" /\ UNCHANGED sleepLeft
              ELSE Sleep(PollSleep)
    /\ UNCHANGED <<expectedText, lastCheckTime, dom, readyAt, regressed, everVisible>>

\* lines 577-584 and 591-597: checkPaintCompletion, then loadTime and break
CheckPaint ==
    /\ ppc = "paint"
    /\ \E d \in 0..MaxLatency :
         /\ now' = now + d
         /\ IF dom.complete
            THEN /\ componentState' =
                      Finalize([componentState EXCEPT !.paintWorkCompleted = TRUE,
                                                      !.loadTime = now + d], now + d)
                 /\ ppc' = "returned"
                 /\ UNCHANGED sleepLeft
            ELSE /\ componentState' =
                      [componentState EXCEPT !.paintWorkCompleted = FALSE]
                 /\ Sleep(PollSleep)
    /\ fresh' = [fresh EXCEPT !["paintWorkCompleted"] = TRUE]
    /\ UNCHANGED <<expectedText, lastCheckTime, dom, readyAt, regressed, everVisible>>

\* time passes in page.waitForTimeout
SleepTick ==
    /\ ppc = "sleep"
    /\ now' = now + 1
    /\ sleepLeft' = sleepLeft - 1
    /\ ppc' = IF sleepLeft = 1 THEN "loop" ELSE "sleep"
    /\ UNCHANGED <<expectedText, lastCheckTime, componentState, dom, fresh,
                   readyAt, regressed, everVisible>>

-----------------------------------------------------------------------------
(* measureReactPagePerformance, and the navigation before it *)

\* line 292: CONFIG.timeouts.http without HTTP_TIMEOUT in the environment
HttpTimeout == 5000

\* lines 771-773: timeout: CONFIG.timeouts.http * 2
IdleTimeout == HttpTimeout * 2

\* how long page.goto and applySimulationConditions take, in ms
GotoTimes == {0, 300, 2000}
SimulationTimes == {0, 50}

\* how long the two waitForLoadState calls take when they resolve, in ms
DomWaits == {0, 400, 3000}
IdleWaits == {0, 1200, 4000}

Overheads == 0..MaxOverhead

PageTrends == {MAIN, "dom_content_loaded_time", "network_idle_time"}

\* lines 753-758
NoTimings ==
    [domContentLoaded |-> 0, networkIdle |-> 0, total |-> 0,
     networkIdleSuccess |-> FALSE]

NotYet == 0 - 1

TimingInit ==
    /\ clock \in {0, 7}
    /\ tpc = "goto"
    /\ navStart = NotYet
    /\ idleEnd = NotYet
    /\ startTime = NotYet
    /\ waited = [dom |-> 0, idle |-> 0]
    /\ timings = NoTimings
    /\ trends = [m \in PageTrends |-> <<>>]

\* no page is measured
TimingIdle ==
    /\ clock = 0
    /\ tpc = "off"
    /\ navStart = NotYet
    /\ idleEnd = NotYet
    /\ startTime = NotYet
    /\ waited = [dom |-> 0, idle |-> 0]
    /\ timings = NoTimings
    /\ trends = [m \in PageTrends |-> <<>>]

\* lines 850-855: await page.goto(CONFIG.testUrl, {waitUntil:
\* "domcontentloaded"}); a rejection leaves measureReactUIPerformance
TimedGoto ==
    /\ tpc = "goto"
    /\ navStart' = clock
    /\ \E g \in GotoTimes, ok \in BOOLEAN :
         /\ clock' = clock + g
         /\ tpc' = IF ok THEN "simulate" ELSE "raised"
    /\ UNCHANGED <<idleEnd, startTime, waited, timings, trends>>

\* lines 857-858: await applySimulationConditions(null, page)
TimedSimulation ==
    /\ tpc = "simulate"
    /\ \E t \in SimulationTimes : clock' = clock + t
    /\ tpc' = "start"
    /\ UNCHANGED <<navStart, idleEnd, startTime, waited, timings, trends>>

\* lines 753-760: the timings object and const startTime = Date.now()
TimedStart ==
    /\ tpc = "start"
    /\ timings' = NoTimings
    /\ startTime' = clock
    /\ \E o \in Overheads : clock' = clock + o
    /\ tpc' = "dom"
    /\ UNCHANGED <<navStart, idleEnd, waited, trends>>

\* lines 763-766: the DOM-content-loaded wait and its sample; lines 797-802:
\* when the wait rejects, total is set and the error is thrown again
TimedDomWait ==
    /\ tpc = "dom"
    /\ \E d \in DomWaits, o \in Overheads, ok \in BOOLEAN :
         /\ waited' = [waited EXCEPT !.dom = d]
         /\ clock' = clock + d + o
         /\ IF ok
            THEN /\ timings' = [timings EXCEPT !.domContentLoaded = (clock + d) - clock]
                 /\ trends' = [trends EXCEPT !["dom_content_loaded_time"] =
                                  Append(@, (clock + d) - clock)]
                 /\ tpc' = "idle"
            ELSE /\ timings' = [timings EXCEPT !.total = (clock + d + o) - startTime]
                 /\ trends' = trends
                 /\ tpc' = "raised"
    /\ UNCHANGED <<navStart, idleEnd, startTime>>

\* lines 769-779: the network-idle wait, which resolves or runs into its
\* timeout, and its sample
TimedIdleWait ==
    /\ tpc = "idle"
    /\ \E n \in IdleWaits \union {IdleTimeout}, o \in Overheads :
         /\ waited' = [waited EXCEPT !.idle = n]
         /\ idleEnd' = clock + n
         /\ clock' = clock + n + o
         /\ timings' = [timings EXCEPT !.networkIdleSuccess = (n < IdleTimeout),
                                       !.networkIdle = (clock + n) - clock]
         /\ trends' = [trends EXCEPT !["network_idle_time"] =
                          Append(@, (clock + n) - clock)]
    /\ tpc' = "total"
    /\ UNCHANGED <<navStart, startTime>>

\* line 782: metrics.mainPageLoadTime.add(timings.total)
PageLoadSampleIdleOnly(tm) == tm.networkIdle
PageLoadSample(tm) == tm.total

\* lines 781-782: timings.total = Date.now() - startTime, and its sample;
\* the screenshot that follows changes neither
TimedTotal ==
    /\ tpc = "total"
    /\ timings' = [timings EXCEPT !.total = clock - startTime]
    /\ trends' = [trends EXCEPT ![MAIN] = Append(@, PageLoadSample(timings'))]
    /\ tpc' = "done"
    /\ UNCHANGED <<clock, navStart, idleEnd, startTime, waited>>

\* line 313: new Trend("main_page_load_time", true); the line the end-of-test
\* summary prints for an average of ms milliseconds, in milliseconds or in
\* seconds
Millis(ms) == SubSeq(Decimal(1000 + (ms % 1000)), 2, 4)

ReportLines(ms) ==
    { Line(MAIN, Dots, Decimal(ms), <<"m", "s">>),
      Line(MAIN, Dots, Decimal(ms \div 1000) \o <<".">> \o Millis(ms), <<"s">>) }

\* part_000, line 10: less than 5 seconds
MainLimit == 5

-----------------------------------------------------------------------------
(* CONFIG: the numeric settings, lines 278-303 *)

\* unary plus on an environment value: undefined gives NaN, a blank string
\* 0, a signed decimal literal its value, any other text in use here NaN
ToNumber(v) ==
    IF ~v.defined THEN NaN
    ELSE LET t == TrimRight(TrimLeft(v.text))
             signed == At(t, 1) \in {"-", "+"}
             body == IF signed THEN Tail(t) ELSE t
             dots == Cardinality({i \in DOMAIN body : body[i] = "."})
             n == ParseFloat(body)
         IN  IF t = <<>> THEN Num(0, 1)
             ELSE IF SkipWhile(body, 1, NumChar) <= Len(body) \/ dots > 1 \/ n.nan
             THEN NaN
             ELSE IF At(t, 1) = "-" THEN Num(0 - n.num, n.den) ELSE n

\* n || def: NaN and 0 are falsy
OrDefault(n, def) == IF n.nan \/ n.num = 0 THEN Num(def, 1) ELSE n

\* Math.max(floor, v)
MathMaxSecondOnly(floor, v) == v
MathMax(floor, v) ==
    IF v.nan THEN NaN
    ELSE IF GreaterOrEqual(v, floor) THEN v ELSE Num(floor, 1)

\* the settings: the field of CONFIG, the variable it is read from, its
\* floor and its default
Settings ==
    { [name |-> "vus", env |-> "VUS", floor |-> 1, def |-> 1],
      [name |-> "iterations", env |-> "ITERATIONS", floor |-> 1, def |-> 1],
      [name |-> "connectivityTimeThreshold", env |-> "USER_CONNECTIVITY_TIME",
       floor |-> 100, def |-> 1000],
      [name |-> "timeouts.domcontentloaded", env |-> "DOM_TIMEOUT",
       floor |-> 5000, def |-> 20000],
      [name |-> "timeouts.element", env |-> "ELEMENT_TIMEOUT",
       floor |-> 1000, def |-> 10000],
      [name |-> "timeouts.component", env |-> "COMPONENT_TIMEOUT",
       floor |-> 1000, def |-> 5000],
      [name |-> "timeouts.http", env |-> "HTTP_TIMEOUT",
       floor |-> 1000, def |-> 5000],
      [name |-> "timeouts.screenshot", env |-> "SCREENSHOT_TIMEOUT",
       floor |-> 200, def |-> 500],
      [name |-> "pollInterval", env |-> "POLL_INTERVAL",
       floor |-> 50, def |-> 100],
      [name |-> "cpu.throttling", env |-> "K6_CPU_THROTTLING",
       floor |-> 1, def |-> 1] }

Setting(name) == CHOOSE st \in Settings : st.name = name

\* the variables that count something rather than measure time
CountEnvs == {"VUS", "ITERATIONS", "K6_CPU_THROTTLING"}

\* values a process may receive for a numeric setting
NumberInputs ==
    { Undefined, Val(<<>>), Val(<<" ">>), Val(<<"a", "b", "c">>),
      Val(<<"1", "2", "p", "x">>), Val(<<"0">>), Val(<<"-", "5">>),
      Val(<<"0", ".", "5">>), Val(<<"1">>), Val(<<"4", "9">>),
      Val(<<"9", "9", "9">>), Val(<<"6", "0", "0", "0", "0">>) }

NotLoaded == [st \in {} |-> NaN]

ConfigInit ==
    /\ \E v \in NumberInputs, w \in NumberInputs :
         supplied = [e \in {st.env : st \in Settings} |->
                        IF e \in CountEnvs THEN w ELSE v]
    /\ CONFIG = NotLoaded

\* the engine script is not loaded
ConfigIdle ==
    /\ supplied = [e \in {st.env : st \in Settings} |-> Undefined]
    /\ CONFIG = NotLoaded

\* lines 278-303: the module evaluates the CONFIG literal
LoadConfig ==
    /\ CONFIG = NotLoaded
    /\ CONFIG' = [name \in {st.name : st \in Settings} |->
                    LET st == Setting(name)
                    IN  MathMax(st.floor,
                                OrDefault(ToNumber(supplied[st.env]), st.def))]
    /\ UNCHANGED supplied

-----------------------------------------------------------------------------
(* Hooks (step_definitions/hook.js) *)

Null == "<null>"

\* hook.js:22-35 and hook.js:38-47: the tags, written without the @, with the
\* profile and the throttling they stand for
NETWORK_CONDITIONS ==
    [c \in {"4G", "WIFI", "3G"} |->
        IF c = "4G" THEN "Regular 4G" ELSE IF c = "WIFI" THEN "WiFi" ELSE "Fast 3G"]

CPU_CONDITIONS ==
    [c \in {"HighCPU", "LowCPU"} |-> IF c = "HighCPU" THEN "1" ELSE "4"]

\* the tagged Before hooks in the order hook.js defines them (hook.js:50-101)
TaggedHooks == <<"4G", "WIFI", "3G", "HighCPU", "LowCPU">>

HookedVariables ==
    {"K6_NETWORK_CONDITION", "K6_NETWORK_PROFILE", "K6_CPU_CONDITION",
     "K6_CPU_THROTTLING", "SCENARIO_NAME", "SCENARIO_TAGS"}

\* the scenarios a feature file may hold
Pickles ==
    [name : {"Load homepage", "Load homepage with throttling"},
     tags : SUBSET {TaggedHooks[i] : i \in DOMAIN TaggedHooks}]

NoPickle == [name |-> Null, tags |-> {}]

\* the environment the cucumber process is started with: nothing set, or a
\* network condition exported by the shell
StartEnvs ==
    { [v \in HookedVariables |-> UNDEFINED],
      [v \in HookedVariables |->
          IF v = "K6_NETWORK_CONDITION" THEN "3G" ELSE UNDEFINED] }

HooksInit ==
    /\ processEnv \in StartEnvs
    /\ networkCondition = Null
    /\ cpuCondition = Null
    /\ currentScenario = Null
    /\ pickle = NoPickle
    /\ hookNo = 0
    /\ hpc = "idle"
    /\ afterRan = FALSE

\* no cucumber process is running
HooksIdle ==
    /\ processEnv = [v \in HookedVariables |-> UNDEFINED]
    /\ networkCondition = Null
    /\ cpuCondition = Null
    /\ currentScenario = Null
    /\ pickle = NoPickle
    /\ hookNo = 0
    /\ hpc = "off"
    /\ afterRan = FALSE

\* the runner takes the next scenario of the feature file
StartScenario ==
    /\ hpc = "idle"
    /\ pickle' \in Pickles
    /\ hookNo' = 1
    /\ hpc' = "before"
    /\ UNCHANGED <<processEnv, networkCondition, cpuCondition, currentScenario,
                   afterRan>>

\* hook.js:50-79: Before({ tags: "@4G" | "@WIFI" | "@3G" })
BeforeNetworkCondition ==
    /\ hpc = "before"
    /\ hookNo \in DOMAIN TaggedHooks
    /\ TaggedHooks[hookNo] \in DOMAIN NETWORK_CONDITIONS
    /\ TaggedHooks[hookNo] \in pickle.tags
    /\ networkCondition' = TaggedHooks[hookNo]
    /\ processEnv' = [processEnv EXCEPT
                         !["K6_NETWORK_CONDITION"] = TaggedHooks[hookNo],
                         !["K6_NETWORK_PROFILE"] = NETWORK_CONDITIONS[TaggedHooks[hookNo]]]
    /\ hookNo' = hookNo + 1
    /\ UNCHANGED <<cpuCondition, currentScenario, pickle, hpc, afterRan>>

\* hook.js:82-101: Before({ tags: "@HighCPU" | "@LowCPU" })
BeforeCpuCondition ==
    /\ hpc = "before"
    /\ hookNo \in DOMAIN TaggedHooks
    /\ TaggedHooks[hookNo] \in DOMAIN CPU_CONDITIONS
    /\ TaggedHooks[hookNo] \in pickle.tags
    /\ cpuCondition' = TaggedHooks[hookNo]
    /\ processEnv' = [processEnv EXCEPT
                         !["K6_CPU_CONDITION"] = TaggedHooks[hookNo],
                         !["K6_CPU_THROTTLING"] = CPU_CONDITIONS[TaggedHooks[hookNo]]]
    /\ hookNo' = hookNo + 1
    /\ UNCHANGED <<networkCondition, currentScenario, pickle, hpc, afterRan>>

\* the runner passes over a tagged hook whose tag the scenario does not carry
SkipTaggedHook ==
    /\ hpc = "before"
    /\ hookNo \in DOMAIN TaggedHooks
    /\ TaggedHooks[hookNo] \notin pickle.tags
    /\ hookNo' = hookNo + 1
    /\ UNCHANGED <<processEnv, networkCondition, cpuCondition, currentScenario,
                   pickle, hpc, afterRan>>

\* hook.js:104-124: Before(function (scenario)); SCENARIO_TAGS is the tag
\* names joined, kept here as the set of tags
BeforeScenario ==
    /\ hpc = "before"
    /\ hookNo = Len(TaggedHooks) + 1
    /\ currentScenario' = pickle.name
    /\ processEnv' = [processEnv EXCEPT !["SCENARIO_NAME"] = pickle.name,
                                        !["SCENARIO_TAGS"] = pickle.tags]
    /\ hpc' = "steps"
    /\ UNCHANGED <<networkCondition, cpuCondition, pickle, hookNo, afterRan>>

\* the steps of the scenario run, passing process.env on to the engine
\* (steps.js:40-42, 89-91), and pass or fail
RunSteps ==
    /\ hpc = "steps"
    /\ hpc' = "after"
    /\ UNCHANGED <<processEnv, networkCondition, cpuCondition, currentScenario,
                   pickle, hookNo, afterRan>>

\* hook.js:137-142: delete process.env.X
DeleteKept(env, names) == env
Delete(env, names) == [v \in DOMAIN env |-> IF v \in names THEN UNDEFINED ELSE env[v]]

\* hook.js:127-147: After(function (scenario)), run whether the scenario
\* passed or failed
AfterScenario ==
    /\ hpc = "after"
    /\ processEnv' = Delete(processEnv, HookedVariables)
    /\ networkCondition' = Null
    /\ cpuCondition' = Null
    /\ hpc' = "idle"
    /\ afterRan' = TRUE
    /\ UNCHANGED <<currentScenario, pickle, hookNo>>

-----------------------------------------------------------------------------
(* Specifications *)

\* the engine script is not running
IterStopped ==
    /\ pc = "end"
    /\ context = "none"
    /\ page = "none"
    /\ calls = <<>>
    /\ samples = [m \in Metrics |-> 0]
    /\ shots = <<>>
    /\ pending = NoError
    /\ outcome = "none"
    /\ measured = <<>>
    /\ result = [type |-> "none"]
    /\ faults = {}

IdleEnv ==
    [TEST_URL |-> Undefined, SUBCOMPONENT_SELECTOR |-> Undefined,
     EXPECTED_TEXT |-> Undefined, ENABLE_SCREENSHOTS |-> UNDEFINED,
     K6_NETWORK_CONDITION |-> UNDEFINED, K6_CPU_THROTTLING |-> UNDEFINED,
     ENABLE_HIGHLIGHTING |-> UNDEFINED, SCENARIO_NAME |-> Undefined,
     SCENARIO_TAGS |-> Undefined]

IterIdle == ENV = IdleEnv /\ IterStopped

\* no scenario is running
StepsIdle ==
    /\ url = NullUrl
    /\ k6Output = NullStr
    /\ k6Outputs = <<>>
    /\ engineRuns = <<>>
    /\ stepResult = NoResult
    /\ phase = "done"

\* no call of the poller is in progress
PollIdle ==
    /\ expectedText = "none"
    /\ now = 0
    /\ lastCheckTime = NoCheckYet
    /\ componentState = InitialState
    /\ ppc = "returned"
    /\ sleepLeft = 0
    /\ dom = [exists |-> FALSE, visible |-> FALSE, enabled |-> FALSE,
              hasText |-> FALSE, textVisible |-> FALSE, complete |-> FALSE]
    /\ fresh = NoneFresh
    /\ readyAt = 0 - 1
    /\ regressed = FALSE
    /\ everVisible = FALSE


StepsNext ==
    \/ GivenPageUrl /\ UNCHANGED <<iterVars, pollVars, netVars, shotVars, timingVars, configVars, scenVars, hookVars>>
    \/ WhenLoadMainPage /\ UNCHANGED <<iterVars, pollVars, netVars, shotVars, timingVars, configVars, scenVars, hookVars>>
    \/ WhenLoadSubcomponents /\ UNCHANGED <<iterVars, pollVars, netVars, shotVars, timingVars, configVars, scenVars, hookVars>>
    \/ ThenSubcomponentLoadTime /\ UNCHANGED <<iterVars, pollVars, netVars, shotVars, timingVars, configVars, scenVars, hookVars>>
    \/ ThenMainPageLoadTime /\ UNCHANGED <<iterVars, pollVars, netVars, shotVars, timingVars, configVars, scenVars, hookVars>>

StepsSpecInit == StepsInit /\ IterIdle /\ PollIdle /\ NetIdle /\ ShotIdle /\ TimingIdle /\ ConfigIdle /\ FirstScenario /\ HooksIdle

StepsSpec == StepsSpecInit /\ [][StepsNext]_vars

ScenariosNext ==
    \/ StepsNext
    \/ NextScenario /\ UNCHANGED <<iterVars, pollVars, netVars, shotVars, timingVars, configVars, hookVars>>

ScenariosSpec == StepsSpecInit /\ [][ScenariosNext]_vars

HooksNext ==
    \/ StartScenario /\ UNCHANGED <<stepVars, iterVars, pollVars, netVars, shotVars, timingVars, configVars, scenVars>>
    \/ BeforeNetworkCondition /\ UNCHANGED <<stepVars, iterVars, pollVars, netVars, shotVars, timingVars, configVars, scenVars>>
    \/ BeforeCpuCondition /\ UNCHANGED <<stepVars, iterVars, pollVars, netVars, shotVars, timingVars, configVars, scenVars>>
    \/ SkipTaggedHook /\ UNCHANGED <<stepVars, iterVars, pollVars, netVars, shotVars, timingVars, configVars, scenVars>>
    \/ BeforeScenario /\ UNCHANGED <<stepVars, iterVars, pollVars, netVars, shotVars, timingVars, configVars, scenVars>>
    \/ RunSteps /\ UNCHANGED <<stepVars, iterVars, pollVars, netVars, shotVars, timingVars, configVars, scenVars>>
    \/ AfterScenario /\ UNCHANGED <<stepVars, iterVars, pollVars, netVars, shotVars, timingVars, configVars, scenVars>>

HooksSpecInit ==
    HooksInit /\ StepsIdle /\ IterIdle /\ PollIdle /\ NetIdle /\ ShotIdle /\ TimingIdle /\ ConfigIdle /\ FirstScenario

HooksSpec == HooksSpecInit /\ [][HooksNext]_vars

IterNext ==
    \/ Validate /\ UNCHANGED <<stepVars, pollVars, netVars, shotVars, timingVars, configVars, scenVars, hookVars>>
    \/ HttpConnectivityCheck /\ UNCHANGED <<stepVars, pollVars, netVars, shotVars, timingVars, configVars, scenVars, hookVars>>
    \/ NewContext /\ UNCHANGED <<stepVars, pollVars, netVars, shotVars, timingVars, configVars, scenVars, hookVars>>
    \/ NewPage /\ UNCHANGED <<stepVars, pollVars, netVars, shotVars, timingVars, configVars, scenVars, hookVars>>
    \/ Goto /\ UNCHANGED <<stepVars, pollVars, netVars, shotVars, timingVars, configVars, scenVars, hookVars>>
    \/ ApplySimulationConditions /\ UNCHANGED <<stepVars, pollVars, netVars, shotVars, timingVars, configVars, scenVars, hookVars>>
    \/ MeasureComponent /\ UNCHANGED <<stepVars, pollVars, netVars, shotVars, timingVars, configVars, scenVars, hookVars>>
    \/ MeasurePage /\ UNCHANGED <<stepVars, pollVars, netVars, shotVars, timingVars, configVars, scenVars, hookVars>>
    \/ CatchError /\ UNCHANGED <<stepVars, pollVars, netVars, shotVars, timingVars, configVars, scenVars, hookVars>>
    \/ ClosePage /\ UNCHANGED <<stepVars, pollVars, netVars, shotVars, timingVars, configVars, scenVars, hookVars>>
    \/ CloseContext /\ UNCHANGED <<stepVars, pollVars, netVars, shotVars, timingVars, configVars, scenVars, hookVars>>
    \/ Finish /\ UNCHANGED <<stepVars, pollVars, netVars, shotVars, timingVars, configVars, scenVars, hookVars>>

IterSpecInit == IterInit /\ StepsIdle /\ PollIdle /\ NetIdle /\ ShotIdle /\ TimingIdle /\ ConfigIdle /\ FirstScenario /\ HooksIdle

IterSpec == IterSpecInit /\ [][IterNext]_vars

PollNext ==
    \/ DomChange /\ UNCHANGED <<stepVars, iterVars, netVars, shotVars, timingVars, configVars, scenVars, hookVars>>
    \/ LoopHead /\ UNCHANGED <<stepVars, iterVars, netVars, shotVars, timingVars, configVars, scenVars, hookVars>>
    \/ QueryElement /\ UNCHANGED <<stepVars, iterVars, netVars, shotVars, timingVars, configVars, scenVars, hookVars>>
    \/ CheckVisible /\ UNCHANGED <<stepVars, iterVars, netVars, shotVars, timingVars, configVars, scenVars, hookVars>>
    \/ CheckEnabled /\ UNCHANGED <<stepVars, iterVars, netVars, shotVars, timingVars, configVars, scenVars, hookVars>>
    \/ CheckText /\ UNCHANGED <<stepVars, iterVars, netVars, shotVars, timingVars, configVars, scenVars, hookVars>>
    \/ CheckTextVisible /\ UNCHANGED <<stepVars, iterVars, netVars, shotVars, timingVars, configVars, scenVars, hookVars>>
    \/ CheckPaint /\ UNCHANGED <<stepVars, iterVars, netVars, shotVars, timingVars, configVars, scenVars, hookVars>>
    \/ SleepTick /\ UNCHANGED <<stepVars, iterVars, netVars, shotVars, timingVars, configVars, scenVars, hookVars>>

PollSpecInit == PollInit /\ StepsIdle /\ IterIdle /\ NetIdle /\ ShotIdle /\ TimingIdle /\ ConfigIdle /\ FirstScenario /\ HooksIdle

PollSpec == PollSpecInit /\ [][PollNext]_vars

\* a step of the poller itself: the page's own changes are not among them
PollerStep ==
    /\ \/ LoopHead
       \/ QueryElement
       \/ CheckVisible
       \/ CheckEnabled
       \/ CheckText
       \/ CheckTextVisible
       \/ CheckPaint
       \/ SleepTick
    /\ UNCHANGED <<stepVars, iterVars, netVars, shotVars, timingVars, configVars, scenVars, hookVars>>

\* every await of the poller settles and every wait advances the clock: the
\* poller is not suspended forever while it has a step to take
PollFairSpec == PollSpec /\ WF_vars(PollerStep)

NetNext ==
    \/ NetTick /\ UNCHANGED <<stepVars, iterVars, pollVars, shotVars, timingVars, configVars, scenVars, hookVars>>
    \/ OnRequest /\ UNCHANGED <<stepVars, iterVars, pollVars, shotVars, timingVars, configVars, scenVars, hookVars>>
    \/ OnResponse /\ UNCHANGED <<stepVars, iterVars, pollVars, shotVars, timingVars, configVars, scenVars, hookVars>>
    \/ LogNetworkPerformance /\ UNCHANGED <<stepVars, iterVars, pollVars, shotVars, timingVars, configVars, scenVars, hookVars>>

NetSpecInit == NetInit /\ StepsIdle /\ IterIdle /\ PollIdle /\ ShotIdle /\ TimingIdle /\ ConfigIdle /\ FirstScenario /\ HooksIdle

NetSpec == NetSpecInit /\ [][NetNext]_vars

ShotNext ==
    \/ ShotStart /\ UNCHANGED <<stepVars, iterVars, pollVars, netVars, timingVars, configVars, scenVars, hookVars>>
    \/ ApplyHighlighting /\ UNCHANGED <<stepVars, iterVars, pollVars, netVars, timingVars, configVars, scenVars, hookVars>>
    \/ ComputeFilename /\ UNCHANGED <<stepVars, iterVars, pollVars, netVars, timingVars, configVars, scenVars, hookVars>>
    \/ PaintWait /\ UNCHANGED <<stepVars, iterVars, pollVars, netVars, timingVars, configVars, scenVars, hookVars>>
    \/ Capture /\ UNCHANGED <<stepVars, iterVars, pollVars, netVars, timingVars, configVars, scenVars, hookVars>>
    \/ RemoveHighlighting /\ UNCHANGED <<stepVars, iterVars, pollVars, netVars, timingVars, configVars, scenVars, hookVars>>

ShotSpecInit ==
    ShotInit /\ StepsIdle /\ IterStopped /\ PollIdle /\ NetIdle /\ TimingIdle /\ ConfigIdle /\ FirstScenario /\ HooksIdle

ShotSpec == ShotSpecInit /\ [][ShotNext]_vars

TimingNext ==
    \/ TimedGoto /\ UNCHANGED <<stepVars, iterVars, pollVars, netVars, shotVars, configVars, scenVars, hookVars>>
    \/ TimedSimulation /\ UNCHANGED <<stepVars, iterVars, pollVars, netVars, shotVars, configVars, scenVars, hookVars>>
    \/ TimedStart /\ UNCHANGED <<stepVars, iterVars, pollVars, netVars, shotVars, configVars, scenVars, hookVars>>
    \/ TimedDomWait /\ UNCHANGED <<stepVars, iterVars, pollVars, netVars, shotVars, configVars, scenVars, hookVars>>
    \/ TimedIdleWait /\ UNCHANGED <<stepVars, iterVars, pollVars, netVars, shotVars, configVars, scenVars, hookVars>>
    \/ TimedTotal /\ UNCHANGED <<stepVars, iterVars, pollVars, netVars, shotVars, configVars, scenVars, hookVars>>

TimingSpecInit ==
    TimingInit /\ StepsIdle /\ IterIdle /\ PollIdle /\ NetIdle /\ ShotIdle /\ ConfigIdle /\ FirstScenario /\ HooksIdle

TimingSpec == TimingSpecInit /\ [][TimingNext]_vars

ConfigNext ==
    LoadConfig /\ UNCHANGED <<stepVars, iterVars, pollVars, netVars, shotVars, timingVars, scenVars, hookVars>>

ConfigSpecInit ==
    ConfigInit /\ StepsIdle /\ IterIdle /\ PollIdle /\ NetIdle /\ ShotIdle /\ TimingIdle /\ FirstScenario /\ HooksIdle

ConfigSpec == ConfigSpecInit /\ [][ConfigNext]_vars

-----------------------------------------------------------------------------
(* Properties of the step definitions *)

\* The averages the report lines print, as exact fractions:
\* 996, 3.62 = 181/50, 5.000 = 5, 5000.
Printed(n) ==
    CASE n = <<"9", "9", "6">> -> [num |-> 996, den |-> 1]
      [] n = <<"3", ".", "6", "2">> -> [num |-> 181, den |-> 50]
      [] n = <<"5", ".", "0", "0", "0">> -> [num |-> 5, den |-> 1]
      [] n = <<"5", "0", "0", "0">> -> [num |-> 5000, den |-> 1]

Numeric == Numbers \ {<<".">>}

GrammarUnits == {<<"m", "s">>, <<"s">>}

Separators == {Dots, <<".", " ">>}

\* the average of a grammar line in seconds: ms is a thousandth of s
ExpectedSeconds(n, u) ==
    IF u = <<"m", "s">>
    THEN [num |-> Printed(n).num, den |-> Printed(n).den * 1000]
    ELSE Printed(n)

SameValue(loadTime, e) ==
    ~loadTime.nan /\ loadTime.num * e.den = e.num * loadTime.den

Other(name) == IF name = MAIN THEN SUB ELSE MAIN

\* text that may precede the first avg= occurrence of a metric
Prefixes(name) ==
    {<<>>, NoiseLine, NoAvgLine(MAIN), NoAvgLine(SUB)} \cup MetricLines(Other(name))

\* the report line of a metric up to and including its unit
GrammarHead(name, sep, n, u) == <<name>> \o sep \o <<":", " ", "avg=">> \o n \o u

\* text begins, after text without avg= for the metric, with a grammar line
\* of the metric carrying the number n and the unit u
FirstAvgIs(text, name, n, u) ==
    \E pre \in Prefixes(name), sep \in Separators :
        IsPrefix(pre \o GrammarHead(name, sep, n, u), text)

HasGrammarLine(text, name) ==
    \E sep \in Separators, n \in Numbers, u \in GrammarUnits :
        Contains(text, GrammarHead(name, sep, n, u))

\* the text the validator of stepResult scanned for its i-th load time
Scanned(i) ==
    IF stepResult.step = "thenMain" THEN k6Output.text
    ELSE IF i <= Len(k6Outputs) THEN k6Outputs[i].output
    ELSE <<>>

Validated == stepResult.step \in {"thenMain", "thenSub"}

MetricOf(step) == IF step = "thenMain" THEN MAIN ELSE SUB

\* C1: a validator passes only if every load time it extracted is a number
\* strictly below the limit; a report whose only line carries an average
\* equal to or above the limit, or a non-numeric one, fails the step.
C1_StrictlyLessThan ==
    Validated =>
      /\ stepResult.status = "pass" =>
           /\ Len(stepResult.loadTimes) >= 1
           /\ \A i \in 1..Len(stepResult.loadTimes) :
                LET t == stepResult.loadTimes[i]
                IN  ~t.nan /\ t.num < stepResult.maxTime * t.den
      /\ \A n \in Numbers, u \in GrammarUnits :
           (/\ Scanned(1) = Line(MetricOf(stepResult.step), Dots, n, u)
            /\ stepResult.step = "thenSub" => Len(k6Outputs) = 1) =>
             (stepResult.status = "pass" <=>
                (n \in Numeric
                   /\ ExpectedSeconds(n, u).num
                        < stepResult.maxTime * ExpectedSeconds(n, u).den))

\* C1 witness: an average exactly equal to the limit was rejected
C1_Witness ==
    /\ Validated
    /\ stepResult.status = "fail"
    /\ stepResult.kind = "threshold"
    /\ LET t == stepResult.loadTimes[Len(stepResult.loadTimes)]
       IN  ~t.nan /\ t.num = stepResult.maxTime * t.den

\* C2: when the first avg= occurrence for the metric is a grammar line, the
\* validator extracts that line's number, divided by 1000 for ms and
\* unchanged for s.
C2_ExtractsFirstAvg ==
    Validated =>
      \A i \in 1..(Len(stepResult.loadTimes) + 1) :
        \A n \in Numeric, u \in GrammarUnits :
          (/\ stepResult.kind # "no_output"
           /\ stepResult.step = "thenSub" => i <= Len(k6Outputs)
           /\ i = Len(stepResult.loadTimes) + 1 => stepResult.kind = "metric_not_found"
           /\ FirstAvgIs(Scanned(i), MetricOf(stepResult.step), n, u))
          => /\ i <= Len(stepResult.loadTimes)
             /\ SameValue(stepResult.loadTimes[i], ExpectedSeconds(n, u))

\* C2 witness: avg=996ms was read as 0.996 s from a report with a second
\* line for the same metric
C2_Witness ==
    /\ stepResult.step = "thenMain"
    /\ k6Output.text = Line(MAIN, Dots, <<"9", "9", "6">>, <<"m", "s">>)
                         \o Line(MAIN, Dots, <<"3", ".", "6", "2">>, <<"s">>)
    /\ stepResult.loadTimes = <<Num(996, 1000)>>

\* C3: output without a grammar line for the metric makes the validator
\* raise metric-not-found with the raw text in the message, and never pass.
C3_NotFoundRaises ==
    Validated =>
      \A i \in 1..(Len(stepResult.loadTimes) + 1) :
        (/\ stepResult.kind # "no_output" \/ stepResult.step = "thenMain"
         /\ stepResult.step = "thenSub" => i <= Len(k6Outputs)
         /\ stepResult.step = "thenMain" => i = 1
         /\ ~HasGrammarLine(Scanned(i), MetricOf(stepResult.step)))
        => /\ stepResult.status = "fail"
           /\ stepResult.kind \in {"metric_not_found", "no_output"}
           /\ stepResult.text = Scanned(i)
           /\ Len(stepResult.loadTimes) = i - 1

\* C4: the text captured from every engine run is its standard output
\* followed by its standard error, whatever the exit status.
C4_CombinedStreams ==
    stepResult.status = "pass" =>
      /\ stepResult.step = "loadMain" =>
           k6Output.text = engineRuns[1].stdout \o engineRuns[1].stderr
      /\ stepResult.step = "loadSub" =>
           \A i \in 1..Len(k6Outputs) :
             k6Outputs[i].output = engineRuns[i].stdout \o engineRuns[i].stderr

\* a report text with the two metric names exchanged
SwapNames(text) ==
    [i \in DOMAIN text |->
        IF text[i] = MAIN THEN SUB ELSE IF text[i] = SUB THEN MAIN ELSE text[i]]

\* C34: on every captured text the main-page validator and, after the
\* metric names are exchanged, the subcomponent validator either both find
\* no metric or both extract the same value in seconds.
C34_ValidatorsShareGrammar ==
    ~k6Output.isNull =>
      LET m == MainMatch(k6Output.text)
          sm == SubMatch(SwapNames(k6Output.text))
      IN  /\ m.found <=> sm.found
          /\ m.found => MainLoadTime(m) = SubLoadTime(sm)

SubcomponentsLoaded == stepResult.step = "loadSub" /\ stepResult.status = "pass"

\* C36: when the subcomponents step has completed, the captured-output list
\* holds one entry per row of its data table, in row order, each with what
\* was captured from the engine run of that row, whatever the exit statuses
\* and whatever an earlier invocation had left in the list.
C36_OneEntryPerRow ==
    SubcomponentsLoaded =>
      /\ Len(k6Outputs) = Len(engineRuns)
      /\ \A i \in 1..Len(k6Outputs) :
           /\ k6Outputs[i].selector = DataTable(Len(engineRuns))[i]
           /\ k6Outputs[i].output = Captured(engineRuns[i])

\* C36 witness: an earlier scenario left one entry; in this one the engine
\* run of the first of two rows exited non-zero and the second row was run
\* all the same
C36_Witness ==
    /\ SubcomponentsLoaded
    /\ earlier.rows = 1
    /\ Len(k6Outputs) = 2
    /\ engineRuns[1].exit = 1
    /\ engineRuns[2].exit = 0
    /\ k6Outputs[2].selector = DataTable(2)[2]

\* the main-page validator runs and scans a text instead of reporting that
\* there is no output
MainValidatorScans ==
    /\ phase = "then"
    /\ stepResult'.step = "thenMain"
    /\ stepResult'.kind # "no_output"

\* C37: whenever the main-page validator scans a text, the load step of the
\* same scenario was 'I load the main page', it completed, and the text is
\* what that step captured from its engine run.
C37_ValidatesOwnScenarioOutput ==
    [][MainValidatorScans =>
         /\ stepResult.step = "loadMain"
         /\ stepResult.status = "pass"
         /\ Len(engineRuns) = 1
         /\ k6Output.text = Captured(engineRuns[1])]_vars

-----------------------------------------------------------------------------
(* Properties of the iteration *)

\* the values of TEST_URL that are missing or not an http(s) URL
BadUrlInputs ==
    { Undefined, Val(<<>>), Val(<<" ", " ">>),
      Val(<<"f", "t", "p", ":", "/", "/", "a">>),
      Val(<<"h", "t", "t", "p", ":", "/", "/">>),
      Val(<<"h", "t", "t", "p", "s", ":", "/", "/", "a", " ", "b">>),
      Val(<<"a", ".", "b">>) }

\* the selectors with a character outside the allowed set
BadSelectorInputs ==
    { Val(<<"d", "{", "}">>), Val(<<"a", "/", "b">>), Val(<<"@">>) }

AboutUrl(errs) ==
    \E i \in 1..Len(errs) :
        errs[i].rule \in {"TEST_URL is required and cannot be empty",
                          "TEST_URL must be a valid URL with http or https protocol"}

AboutSelector(errs) ==
    \E i \in 1..Len(errs) :
        /\ errs[i].rule = "SUBCOMPONENT_SELECTOR must be a valid CSS selector"
        /\ errs[i].text = TrimRight(TrimLeft(ENV.SUBCOMPONENT_SELECTOR.text))

\* C5: a configuration whose URL is missing or not http(s) and whose selector
\* is outside the allowed characters is rejected with one error that lists
\* the URL violation and the selector violation.
C5_AllViolationsListed ==
    (/\ pc # "validate"
     /\ ENV.TEST_URL \in BadUrlInputs
     /\ ENV.SUBCOMPONENT_SELECTOR \in BadSelectorInputs)
    => /\ outcome = "raised"
       /\ pending.kind = "config"
       /\ AboutUrl(pending.violations)
       /\ AboutSelector(pending.violations)

\* C5 witness: validation raised with two violations
C5_Witness ==
    /\ outcome = "raised"
    /\ pending.kind = "config"
    /\ Len(pending.violations) = 2

\* C6: when the configuration is invalid the iteration raises at validation:
\* no context or page is ever created, nothing is navigated, measured or
\* captured.
C6_ConfigErrorBeforeSession ==
    (ENV.TEST_URL \in BadUrlInputs \/ ENV.SUBCOMPONENT_SELECTOR \in BadSelectorInputs)
    => /\ context = "none"
       /\ page = "none"
       /\ \A i \in 1..Len(calls) : calls[i] = "validate"
       /\ shots = <<>>
       /\ \A m \in Metrics : samples[m] = 0
       /\ pc # "validate" => (outcome = "raised" /\ pending.kind = "config")

\* C6 witness: the iteration ended at validation with a configuration error
C6_Witness ==
    /\ pending.kind = "config"
    /\ outcome = "raised"
    /\ calls = <<"validate">>
    /\ pc = "end"

\* C7: once the session was acquired, neither the page nor the context is
\* still open without a close when the iteration returns or raises.
C7_SessionClosedOnExit ==
    (outcome # "none" /\ context # "none")
    => /\ context \in {"closed", "closeFailed"}
       /\ page \in {"none", "closed", "closeFailed"}

\* the name performReactComponentChecks reports for a flag
CheckName(f) ==
    CASE f = "isVisible" -> "Component is visible"
      [] f = "isEnabled" -> "Component is enabled"
      [] f = "isInteractable" -> "Component is interactable"
      [] f = "paintWorkCompleted" -> "Component paint work completed"
      [] f = "containsExpectedText" -> "Component contains expected text"
      [] f = "expectedTextIsVisible" -> "Expected text is visible"

TextFlags == {"containsExpectedText", "expectedTextIsVisible"}

Applicable ==
    IF Missing(ConfigExpectedText) THEN Flags \ TextFlags ELSE Flags

Named(errs) == {errs[i] : i \in 1..Len(errs)}

ValidatorRan == measured # <<>>

\* C11: the checklist validator raises if and only if an applicable check is
\* false, and the error names every failed applicable check and nothing else.
C11_ValidatorNamesEveryFailedCheck ==
    ValidatorRan =>
      LET failed == {f \in Applicable : ~measured[1][f]}
      IN  /\ (pending.kind = "validation") <=> (failed # {})
          /\ pending.kind = "validation" =>
               Named(pending.violations) = {CheckName(f) : f \in failed}
          /\ failed = {} => samples["subcomponent_load_time"] = 1

\* C11 witness: a state with an expected text where two checks failed, one
\* of them a text check, and the error names both
C11_Witness ==
    /\ ValidatorRan
    /\ ~Missing(ConfigExpectedText)
    /\ measured[1].isVisible /\ measured[1].containsExpectedText
    /\ ~measured[1].expectedTextIsVisible
    /\ pending.kind = "validation"
    /\ Len(pending.violations) = 2

PageMeasured == Missing(ConfigSelector) /\ "measure" \in Named(calls)

\* C12: in page mode a timeout of the network-idle wait leaves
\* networkIdleSuccess false, still records the network_idle_time and
\* main_page_load_time samples and lets the measurement and the iteration
\* return; the page measurement raises exactly when the DOM-content-loaded
\* wait failed.
C12_IdleTimeoutDoesNotAbort ==
    PageMeasured =>
      /\ "networkidle" \in faults =>
           /\ result = PageResult(FALSE)
           /\ samples["network_idle_time"] = 1
           /\ samples["main_page_load_time"] = 1
           /\ pending.kind = "none"
           /\ pc = "end" => outcome = "returned"
      /\ (pending.kind # "none") <=> ("domcontentloaded" \in faults)
      /\ "domcontentloaded" \in faults =>
           /\ result = NoMeasurement
           /\ samples["main_page_load_time"] = 0

\* C12 witness: an iteration in page mode returned after the network-idle
\* wait timed out
C12_Witness ==
    /\ PageMeasured
    /\ "networkidle" \in faults
    /\ pc = "end"
    /\ outcome = "returned"
    /\ Len(shots) = 1 /\ shots[1].status = "partial"

\* the calls made for a side effect: screenshots and simulation
SideEffects ==
    {"page.screenshot", "page.emulateNetworkConditions",
     "page.emulateCPUThrottling"}

\* the failures of the other calls
OtherFaults == faults \ SideEffects

\* the measurement was reached: the configuration was valid and the session
\* and the navigation succeeded
MeasurementReached ==
    /\ ValidationErrors = <<>>
    /\ OtherFaults \cap {"http.get", "browser.newContext", "context.newPage",
                         "page.goto"} = {}

ChecksPassed ==
    /\ measured # <<>>
    /\ \A f \in Applicable : measured[1][f]

\* whether the iteration raises, as the inputs other than the side effects
\* decide it
RaisesWithoutSideEffects ==
    \/ ~MeasurementReached
    \/ IF Missing(ConfigSelector) THEN "domcontentloaded" \in OtherFaults
       ELSE ~ChecksPassed

\* the series that receive a sample, as the inputs other than the side
\* effects decide them
SeriesWithoutSideEffects ==
    IF ~MeasurementReached THEN {}
    ELSE IF Missing(ConfigSelector)
         THEN IF "domcontentloaded" \in OtherFaults THEN {}
              ELSE {"dom_content_loaded_time", "network_idle_time",
                    "main_page_load_time"}
         ELSE IF ChecksPassed THEN {"subcomponent_load_time"} ELSE {}

\* C16: whether the iteration raises and which metric series receive a
\* sample are decided by the configuration and the results of the calls that
\* are not side effects; whether a screenshot or a simulation call failed
\* changes neither.
C16_SideEffectsDoNotChangeOutcome ==
    pc = "end" =>
      /\ (outcome = "raised") <=> RaisesWithoutSideEffects
      /\ {m \in Metrics : samples[m] > 0} = SeriesWithoutSideEffects

\* C16 witness: an iteration returned its result with a sample although a
\* simulation call and the screenshot capture failed
C16_Witness ==
    /\ pc = "end"
    /\ outcome = "returned"
    /\ "page.screenshot" \in faults
    /\ "page.emulateNetworkConditions" \in faults
    /\ samples["subcomponent_load_time"] = 1

SimulationCalls ==
    {"page.emulateNetworkConditions", "page.emulateCPUThrottling"}

\* C20: after a network-emulation or CPU-throttling call failed,
\* applySimulationConditions returns normally and the iteration goes on to
\* the measurement; no error of the simulation is ever in flight.
C20_SimulationFailureSwallowed ==
    /\ pending.kind # "simulation"
    /\ faults \cap SimulationCalls # {} =>
         \/ pc = "measure"
         \/ "measure" \in Named(calls)

\* C20 witness: the CPU throttling call failed and the iteration measured the
\* page and returned
C20_Witness ==
    /\ "page.emulateCPUThrottling" \in faults
    /\ "measure" \in Named(calls)
    /\ pc = "end"
    /\ outcome = "returned"

\* the errors raised after the page exists: of page.goto and of the measurement
MeasurementErrors == {"navigation", "validation", "measurement"}

\* C21: when an error of the navigation or of the measurement is in flight,
\* the failure screenshot is attempted before the page is closed, the page
\* and the context are then both closed, and the iteration raises that error.
C21_FailureShotCleanupReraise ==
    pending.kind \in MeasurementErrors =>
      /\ pc = "closePage" =>
           /\ shots # <<>>
           /\ shots[Len(shots)].testType = "error"
           /\ shots[Len(shots)].status = "fail"
           /\ "page.close" \notin Named(calls)
           /\ "context.close" \notin Named(calls)
      /\ pc = "end" =>
           /\ outcome = "raised"
           /\ "page.close" \in Named(calls)
           /\ "context.close" \in Named(calls)

ComponentMode == ~Missing(ConfigSelector)

ComponentMeasured == ComponentMode /\ measured # <<>>

\* C35: in component mode subcomponent_load_time has a sample exactly when
\* the checklist validator passed for the returned state; when it failed,
\* a component/fail screenshot was attempted and the validation error is in
\* flight until the iteration raises it.  Component mode records nothing in
\* main_page_load_time, page mode nothing in subcomponent_load_time.
C35_SampleIffChecksPass ==
    /\ ComponentMode => samples["main_page_load_time"] = 0
    /\ ~ComponentMode => samples["subcomponent_load_time"] = 0
    /\ ~ComponentMeasured => samples["subcomponent_load_time"] = 0
    /\ ComponentMeasured =>
         IF FailedChecks(measured[1], ConfigExpectedText) = <<>>
         THEN samples["subcomponent_load_time"] = 1
         ELSE /\ samples["subcomponent_load_time"] = 0
              /\ \E i \in DOMAIN shots :
                   shots[i].testType = "component" /\ shots[i].status = "fail"
              /\ pending.kind = "validation"
              /\ pc = "end" => outcome = "raised"

\* C35 witness: the poller returned a timeout state (paint not completed),
\* no sample was recorded and the iteration raised the validation error
C35_Witness ==
    /\ ComponentMeasured
    /\ ~measured[1].paintWorkCompleted
    /\ samples["subcomponent_load_time"] = 0
    /\ pending.kind = "validation"
    /\ pc = "end"
    /\ outcome = "raised"

CleanupCalls == {"page.close", "context.close"}

InCleanup == pc \in {"closePage", "closeContext", "finish"}

\* C32: the cleanup stage raises nothing: a failed page.close or
\* context.close changes neither the error in flight nor the result, and the
\* iteration returns its result or raises the error it had before cleanup.
C32_CleanupNeverRaises ==
    /\ [](pending.kind # "cleanup")
    /\ [][InCleanup => (pending' = pending /\ result' = result)]_vars
    /\ [](pc = "end" =>
            outcome = IF pending.kind = "none" THEN "returned" ELSE "raised")

\* C32 witness: the page was measured, page.close failed, and the iteration
\* returned its page result
C32_Witness ==
    /\ pc = "end"
    /\ "page.close" \in faults
    /\ outcome = "returned"
    /\ result.type = "page"
    /\ pending = NoError

\* the positions of a call in the iteration's call sequence
Positions(names) == {i \in DOMAIN calls : calls[i] \in names}

Before(first, then) ==
    \A i \in Positions(first) : \A j \in Positions(then) : i < j

\* C28: the iteration validates, acquires the context and the page, applies
\* the simulation conditions, navigates and measures, in this order; every
\* simulation call precedes page.goto.
C28_SimulationBeforeNavigation ==
    /\ Before({"validate"}, {"browser.newContext"})
    /\ Before({"browser.newContext"}, {"context.newPage"})
    /\ Before({"context.newPage"}, SimulationCalls)
    /\ Before(SimulationCalls, {"page.goto"})
    /\ Before({"page.goto"}, {"measure"})

-----------------------------------------------------------------------------
(* Properties of the network monitoring *)

\* the requests answered in this step
Answered(w1, w2) ==
    {r \in 1..Len(w1) : ~w1[r].answered /\ w2[r].answered}

\* a response arrives whose request identifier has no entry in the map
UnmatchedResponse ==
    \E r \in Answered(wire, wire') :
        RequestId(wire[r]) \notin DOMAIN requestTimings

\* C13: a response whose request identifier has no entry in the pending map
\* appends no log entry, leaves the map unchanged and records no sample.
C13_UnmatchedResponseIgnored ==
    [][UnmatchedResponse =>
         /\ networkLogs' = networkLogs
         /\ requestTimings' = requestTimings
         /\ apiSamples' = apiSamples]_vars

\* C13 witness: with logging enabled, a request with an API method was
\* answered while the map held no entry under its identifier, the entry
\* having been consumed by the response to an earlier request with the same
\* URL
C13_Witness ==
    /\ netLogging
    /\ \E r \in 1..Len(wire) :
         /\ wire[r].answered
         /\ IsApiMethod(wire[r].method)
         /\ \A i \in 1..Len(networkLogs) : networkLogs[i].rid # r
    /\ Len(networkLogs) = 1
    /\ requestTimings = EmptyMap

\* C14: every entry of the network log belongs to a response whose request
\* was observed earlier under the same identifier with a method among GET,
\* POST, PUT, PATCH, DELETE, and no request has two entries.
C14_LogEntriesAreMatchedApiPairs ==
    \A i \in 1..Len(networkLogs) :
        LET e == networkLogs[i]
        IN  /\ e.rid \in 1..Len(wire)
            /\ wire[e.rid].answered
            /\ wire[e.rid].at <= e.at
            /\ ToUpperCase(wire[e.rid].method) \in ApiMethods
            /\ e.method = ToUpperCase(wire[e.rid].method)
            /\ e.url = wire[e.rid].url
            /\ e.responseTime >= 0
            /\ \A j \in 1..Len(networkLogs) :
                 networkLogs[j].rid = e.rid => j = i

\* C14 witness: two requests were answered and logged, one of them sent with
\* a lower-case method
C14_Witness ==
    /\ Len(networkLogs) = 2
    /\ \E r \in 1..Len(wire) : wire[r].method = "post" /\ wire[r].answered
    /\ \E i \in 1..2 : networkLogs[i].method = "POST"

\* the map holds an entry only under the identifier of a request with an API
\* method that was sent when the entry was written and is not answered yet
PendingAreUnansweredApiRequests ==
    \A id \in DOMAIN requestTimings :
        \E r \in 1..Len(wire) :
            /\ RequestId(wire[r]) = id
            /\ IsApiMethod(wire[r].method)
            /\ ~wire[r].answered
            /\ requestTimings[id].start = wire[r].at
            /\ requestTimings[id].method = ToUpperCase(wire[r].method)
            /\ requestTimings[id].url = wire[r].url

\* a request with another method leaves the map as it is
OtherMethodsNotInserted ==
    (Len(wire') = Len(wire) + 1 /\ ~IsApiMethod(wire'[Len(wire')].method))
    => requestTimings' = requestTimings

\* a response that appends a log entry removes the entry of its identifier
MatchedResponseRemovesEntry ==
    \A r \in Answered(wire, wire') :
        Len(networkLogs') > Len(networkLogs)
        => /\ RequestId(wire[r]) \in DOMAIN requestTimings
           /\ RequestId(wire[r]) \notin DOMAIN requestTimings'

\* C30: the pending map holds only requests with an API method whose
\* response was not matched yet: a request with another method is never
\* inserted, and a matched response removes its entry, so that a later
\* response under the same identifier finds none.
C30_PendingMapHoldsUnmatchedApiRequests ==
    /\ []PendingAreUnansweredApiRequests
    /\ [][OtherMethodsNotInserted /\ MatchedResponseRemovesEntry]_vars

\* C30 witness: with logging enabled, a HEAD request was sent and never
\* entered the map, and a GET request was answered and logged, which removed
\* its entry
C30_Witness ==
    /\ netLogging
    /\ Len(wire) = 2
    /\ wire[1].method = "HEAD"
    /\ wire[2].method = "GET" /\ wire[2].answered
    /\ Len(networkLogs) = 1 /\ networkLogs[1].rid = 2
    /\ requestTimings = EmptyMap

\* C31: under every interleaving of requests and responses, the responseTime
\* of each log entry is the time its response was observed minus the time its
\* own request was observed, and is not negative.
C31_ResponseTimeOfOwnRequest ==
    \A i \in 1..Len(networkLogs) :
        LET e == networkLogs[i]
        IN  /\ e.responseTime = e.at - wire[e.rid].at
            /\ e.responseTime >= 0

-----------------------------------------------------------------------------
(* Properties of takeScreenshot *)

ShotReturned == spc = "returned"

\* C15 as stated: takeScreenshot never raises; it logs and returns null when
\* screenshots are disabled or when highlighting, the paint wait or the
\* capture failed, and returns the path otherwise.
C15_NullOnAnyFailure ==
    ShotReturned =>
      /\ shotReturn \in {"null", "path"}
      /\ (shotReturn = "null") <=>
           (~ConfigScreenshots
              \/ shotFaults \cap {"highlight", "paint", "capture"} # {})
      /\ shotReturn = "null" => shotLog # {}

\* C15 amended: takeScreenshot never raises; it logs and returns null when
\* screenshots are disabled or when the paint wait or the capture failed; a
\* failure of highlighting or of its removal is logged as a warning and the
\* path is still returned.
C15_NullOnCaptureFailure ==
    ShotReturned =>
      /\ shotReturn \in {"null", "path"}
      /\ (shotReturn = "null") <=>
           (~ConfigScreenshots \/ shotFaults \cap {"paint", "capture"} # {})
      /\ shotReturn = "null" =>
           \/ "debug: screenshots disabled" \in shotLog
           \/ "error: failed to take screenshot" \in shotLog
      /\ "highlight" \in shotFaults => "warn: could not highlight" \in shotLog
      /\ "restore" \in shotFaults =>
           "warn: could not clean up highlighting" \in shotLog
      /\ shotReturn = "path" => filename # <<>>

\* C15 witness: highlighting failed and the path was returned
C15_Witness ==
    /\ ShotReturned
    /\ "highlight" \in shotFaults
    /\ shotReturn = "path"

\* C17: when takeScreenshot returns from a component-mode capture, whether
\* the capture succeeded or failed, every element has its original style
\* values, no element carries the highlighted marker and no highlight record
\* is left.
C17_HighlightAlwaysRestored ==
    (ShotReturned /\ shotArgs.testType = "component") =>
      /\ styles = original
      /\ \A e \in Els : ~marked[e]
      /\ highlightedElements = <<>>

\* [A-Za-z0-9_]
SafeChars == Alnum \union {"_"}

IsSafe(field) == \A i \in 1..Len(field) : field[i] \in SafeChars

FilenameComputed == filename # <<>>

\* C18: each field of the generated filename consists of characters in
\* [A-Za-z0-9_] only; the scenario has at most 30, the tags at most 20 and
\* the text fragment at most 15 characters.
C18_FilenameFieldsSanitized ==
    FilenameComputed =>
      LET parts == FilenameParts(ENV.SCENARIO_NAME, ENV.SCENARIO_TAGS,
                                 shotArgs, vu)
      IN  /\ \A i \in 2..Len(parts) :
                /\ IsSafe(parts[i])
                /\ Contains(filename, parts[i])
          /\ Len(ScenarioName(ENV.SCENARIO_NAME)) <= 30
          /\ Len(ScenarioTags(ENV.SCENARIO_TAGS)) <= 20
          /\ Len(CleanExpectedText(shotArgs.text)) <= 15

\* the captures another worker of the same engine process can issue at the
\* same instant: the same environment and timestamp, any arguments
OtherCaptures ==
    {c \in [args : ShotCalls, vu : Workers] : c.vu.idInTest # vu.idInTest}

\* C19: a capture issued at the same instant by a different worker gets a
\* different filename, whatever the scenario name, tags, test type, status
\* and expected text of the two captures.
C19_WorkersGetDistinctFilenames ==
    (FilenameComputed /\ spc = "paint") =>
      \A c \in OtherCaptures :
          Filename(ENV.SCENARIO_NAME, ENV.SCENARIO_TAGS, c.args, c.vu) # filename

\* C19 witness: a filename was computed for worker 1 where the expected text
\* itself reads like the marker of worker 11, and worker 11 can capture at
\* the same instant
C19_Witness ==
    /\ FilenameComputed
    /\ spc = "paint"
    /\ vu.idInTest = 1
    /\ Contains(filename, <<"V", "U", "1", "1", "_", "I", "t", "e", "r", "0">>)
    /\ \E c \in OtherCaptures : c.vu.idInTest = 11 /\ c.args.text = Undefined

-----------------------------------------------------------------------------
(* Properties of the readiness poller *)

Returned == ppc = "returned"

\* the page calls one tick awaits
AwaitedCalls == {"page.$", "isVisible", "isEnabled", "textContent",
                 "textLocator.isVisible", "checkPaintCompletion"}

TickCalls == Cardinality(AwaitedCalls)

\* the longest time one tick spends evaluating its checks
TickLatency == TickCalls * MaxLatency

\* the conditions of the page never regressed and all hold since readyAt
ReadySince(t) == ~regressed /\ readyAt = t

C9_NeverVisibleTimesOut ==
    (Returned /\ ~everVisible)
    => /\ ~componentState.paintWorkCompleted
       /\ ~componentState.isVisible
       /\ componentState.loadTime = now
       /\ lastCheckTime < Timeout
       /\ componentState.loadTime >= Timeout
       /\ componentState.loadTime - lastCheckTime <= PollInterval + 2 * MaxLatency

\* C9 witness: a timeout on an element that exists but was never visible
C9_Witness ==
    /\ Returned
    /\ ~everVisible
    /\ dom.exists
    /\ componentState.loadTime > Timeout

Others == Flags \ {"paintWorkCompleted"}

\* C10: whenever paintWorkCompleted is true, the five other flags are true
\* and were assigned in the tick that assigned paintWorkCompleted; loadTime
\* is never negative.
C10_PaintImpliesAllInSameTick ==
    /\ componentState.loadTime >= 0
    /\ componentState.paintWorkCompleted =>
         /\ \A f \in Others : componentState[f]
         /\ \A f \in Flags : fresh[f]

\* C10 witness: the poller returned a painted component on a later tick
C10_Witness ==
    /\ Returned
    /\ componentState.paintWorkCompleted
    /\ lastCheckTime > 0
    /\ expectedText = "text"

\* the check a tick is about to sample
Sampling == {"query", "visible", "enabled", "text", "textVisible", "paint"}

\* a tick moves on to a check only from the check before it in the
\* checklist, and only when that one was met
ChecksInOrder ==
    (ppc' # ppc /\ ppc' \in Sampling) =>
      \/ ppc = "loop" /\ ppc' = "query"
      \/ ppc = "query" /\ ppc' = "visible" /\ dom.exists
      \/ ppc = "visible" /\ ppc' = "enabled" /\ componentState'.isVisible
      \/ /\ ppc = "enabled" /\ ppc' = "text" /\ expectedText # "none"
         /\ componentState'.isEnabled /\ componentState'.isInteractable
      \/ /\ ppc = "enabled" /\ ppc' = "paint" /\ expectedText = "none"
         /\ componentState'.isEnabled /\ componentState'.isInteractable
      \/ ppc = "text" /\ ppc' = "textVisible"
         /\ componentState'.containsExpectedText
      \/ ppc = "textVisible" /\ ppc' = "paint"
         /\ componentState'.expectedTextIsVisible

\* a flag sampled in this tick has every earlier flag sampled in this tick
\* and true
SampledAfterEarlierPassed ==
    /\ fresh["isEnabled"] =>
         fresh["isVisible"] /\ componentState.isVisible
    /\ fresh["isInteractable"] => fresh["isEnabled"]
    /\ fresh["containsExpectedText"] =>
         /\ fresh["isInteractable"]
         /\ componentState.isEnabled /\ componentState.isInteractable
    /\ fresh["expectedTextIsVisible"] =>
         fresh["containsExpectedText"] /\ componentState.containsExpectedText
    /\ fresh["paintWorkCompleted"] =>
         fresh["expectedTextIsVisible"] /\ componentState.expectedTextIsVisible

\* C23: within a tick the checks run in the order exists, visible, enabled,
\* interactable, contains text, text visible, paint, and a check is sampled
\* only when every earlier one was sampled in the same tick and met.
C23_ChecksInOrderStopAtFirstUnmet ==
    /\ []SampledAfterEarlierPassed
    /\ [][ChecksInOrder]_vars

\* C23 witness: a tick sampled a visible but disabled element whose text is
\* on the page, and went to sleep without sampling the text
C23_Witness ==
    /\ ppc = "sleep"
    /\ expectedText = "text"
    /\ dom.hasText /\ dom.complete
    /\ fresh["isVisible"] /\ componentState.isVisible
    /\ fresh["isEnabled"] /\ ~componentState.isEnabled
    /\ ~fresh["containsExpectedText"]
    /\ ~fresh["paintWorkCompleted"]

\* no tick is in progress
BetweenTicks == ppc \in {"sleep", "loop", "returned"}

\* C24: after each tick and on return, ComponentState reflects the last
\* evaluated tick only: every flag that is true was sampled in that tick.
C24_NoCrossTickMemory ==
    BetweenTicks => \A f \in Flags : componentState[f] => fresh[f]

\* C25: in every state of the poller isInteractable equals isVisible and
\* isEnabled.
C25_InteractableIsVisibleAndEnabled ==
    componentState.isInteractable
      = (componentState.isVisible /\ componentState.isEnabled)

EndsOnlyOnSuccessOrDeadline ==
    (ppc # "returned" /\ ppc' = "returned") =>
      \/ ppc = "loop" /\ now >= Timeout
      \/ ppc = "paint" /\ componentState'.paintWorkCompleted

\* what the poller returns is a success of one tick or a timeout
ReturnsSuccessOrTimeout ==
    Returned =>
      \/ componentState.paintWorkCompleted /\ \A f \in Flags : fresh[f]
      \/ ~componentState.paintWorkCompleted /\ componentState.loadTime >= Timeout

\* C27: with every wait advancing the clock the poller terminates; it
\* returns from a tick in which all applicable checks passed or once the
\* timeout has elapsed, begins no tick after the deadline, and an error
\* thrown by a check does not end the loop.
C27_PollerTerminates ==
    /\ <>Returned
    /\ [](ReturnsSuccessOrTimeout /\ lastCheckTime < Timeout)
    /\ [][EndsOnlyOnSuccessOrDeadline]_vars

\* C27 witness: in a tick after the first, isEnabled threw on an element
\* detached after it was found visible (isVisible sampled and true, isEnabled
\* not sampled); the error was caught and the poller returned on the deadline
C27_Witness ==
    /\ Returned
    /\ lastCheckTime > 0
    /\ fresh["isVisible"] /\ componentState.isVisible
    /\ ~fresh["isEnabled"]
    /\ ~dom.exists
    /\ ~componentState.paintWorkCompleted
    /\ componentState.loadTime >= Timeout

-----------------------------------------------------------------------------
(* Properties of the page measurement *)

Measured == tpc = "done"

\* C22: in page mode, with a DOM-content-loaded wait of d ms and a
\* network-idle wait of n ms, one sample is recorded in main_page_load_time,
\* of d + n ms up to the overhead between the awaits, and the main-page
\* validator with the limit of 5 seconds accepts a report line carrying
\* that average exactly when it is below 5000 ms.
C22_PageSampleIsDomPlusIdle ==
    Measured =>
      /\ Len(trends[MAIN]) = 1
      /\ LET total == trends[MAIN][1]
         IN  /\ total >= waited.dom + waited.idle
             /\ total <= waited.dom + waited.idle + 3 * MaxOverhead
             /\ \A line \in ReportLines(total) :
                  LET m == MainMatch(line)
                  IN  /\ m.found
                      /\ ThresholdFails(MainLoadTime(m), MainLimit)
                           <=> total >= MainLimit * 1000

\* C22 witness: waits of 400 ms and 1200 ms after a navigation that took
\* time gave a sample of 1600 ms
C22_Witness ==
    /\ Measured
    /\ waited = [dom |-> 400, idle |-> 1200]
    /\ timings.networkIdleSuccess
    /\ trends[MAIN] = <<1600>>
    /\ startTime > navStart

\* C29: total is the time from the start of the navigation to the end of the
\* network-idle wait, up to the overhead between the awaits; it is at least
\* domContentLoaded + networkIdle, and none of the three is negative.
C29_TotalFromNavigationStart ==
    Measured =>
      /\ timings.total >= idleEnd - navStart
      /\ timings.total <= (idleEnd - navStart) + 3 * MaxOverhead
      /\ timings.total >= timings.domContentLoaded + timings.networkIdle
      /\ timings.domContentLoaded >= 0
      /\ timings.networkIdle >= 0

-----------------------------------------------------------------------------
(* Properties of CONFIG *)

Loaded == CONFIG # NotLoaded

\* C33: whatever value is supplied, every resolved timeout, interval and
\* count is a number and at least its floor, and a supplied number below the
\* floor (other than 0, which selects the default) resolves to the floor.
C33_SettingsAtLeastFloor ==
    Loaded =>
      \A st \in Settings :
          LET n == ToNumber(supplied[st.env])
          IN  /\ GreaterOrEqual(CONFIG[st.name], st.floor)
              /\ (~n.nan /\ n.num # 0 /\ ~GreaterOrEqual(n, st.floor))
                   => CONFIG[st.name] = Num(st.floor, 1)

\* C33 witness: a negative element timeout resolved to 1000 and zero workers
\* to 1
C33_Witness ==
    /\ Loaded
    /\ supplied["ELEMENT_TIMEOUT"] = Val(<<"-", "5">>)
    /\ CONFIG["timeouts.element"] = Num(1000, 1)
    /\ supplied["VUS"] = Val(<<"0">>)
    /\ CONFIG["vus"] = Num(1, 1)

-----------------------------------------------------------------------------
(* Properties of the hooks *)

\* C38: after each After hook the six variables are unset and both module
\* conditions are null; and from the second scenario of the process on, a
\* scenario runs its steps with a network or CPU setting in the environment
\* only if it carries the tag of that setting.
C38_NoSettingInherited ==
    /\ (hpc = "idle" /\ afterRan) =>
         /\ \A v \in HookedVariables : processEnv[v] = UNDEFINED
         /\ networkCondition = Null
         /\ cpuCondition = Null
    /\ (hpc \in {"steps", "after"} /\ afterRan) =>
         /\ processEnv["K6_NETWORK_CONDITION"] # UNDEFINED =>
              /\ processEnv["K6_NETWORK_CONDITION"] \in pickle.tags
              /\ networkCondition = processEnv["K6_NETWORK_CONDITION"]
              /\ processEnv["K6_NETWORK_PROFILE"]
                   = NETWORK_CONDITIONS[networkCondition]
         /\ processEnv["K6_NETWORK_CONDITION"] = UNDEFINED =>
              /\ networkCondition = Null
              /\ processEnv["K6_NETWORK_PROFILE"] = UNDEFINED
         /\ processEnv["K6_CPU_CONDITION"] # UNDEFINED =>
              /\ processEnv["K6_CPU_CONDITION"] \in pickle.tags
              /\ cpuCondition = processEnv["K6_CPU_CONDITION"]
              /\ processEnv["K6_CPU_THROTTLING"] = CPU_CONDITIONS[cpuCondition]
         /\ processEnv["K6_CPU_CONDITION"] = UNDEFINED =>
              /\ cpuCondition = Null
              /\ processEnv["K6_CPU_THROTTLING"] = UNDEFINED
         /\ processEnv["SCENARIO_NAME"] = pickle.name
         /\ processEnv["SCENARIO_TAGS"] = pickle.tags

\* C38 witness: a scenario without tags runs its steps after an earlier
\* scenario of the same process, with no setting in the environment at all
C38_Witness ==
    /\ hpc = "steps"
    /\ afterRan
    /\ pickle.tags = {}
    /\ currentScenario = pickle.name
    /\ processEnv["K6_NETWORK_CONDITION"] = UNDEFINED
    /\ processEnv["K6_CPU_THROTTLING"] = UNDEFINED

====
